---- MODULE Spec2Model ----
(***************************************************************************)
(* A model of the CSV interpretation pipeline of the flight-trajectory     *)
(* visualizer: header detection, position-column resolution, point         *)
(* sampling (utils/data_processor.py), the cleaning engine                 *)
(* (utils/data_cleaner.py) and the encoding resolver (app.py).             *)
(*                                                                         *)
(* Every component is a stage with its own inputs and its own result; a    *)
(* stage's specification draws the inputs, runs the stage's code as one    *)
(* action and leaves the variables of the other stages at rest.            *)
(***************************************************************************)
EXTENDS Integers, Sequences, FiniteSets, TLC

VARIABLES
    first_line,     \* header stage: the first line of the CSV content
    header_pc,      \* header stage: "rest", "input" or "done"
    has_headers,    \* header stage: the decision of process_csv_data
    traj,           \* sampling stage: the table df, position columns resolved
    sample_rate,    \* sampling stage: the caller's sample_rate (1 = the default)
    sample_pc,      \* sampling stage: "rest", "input" or "done"
    result,         \* sampling stage: what process_csv_data returns
    df,             \* resolution stage: the parsed table, a sequence of columns
    detect_pc,      \* resolution stage: "rest", "input" or "done"
    alt_columns,    \* resolution stage: what detect_position_columns returned
    resolved,       \* resolution stage: the columns after renaming, or the error
    raw_text,       \* encoding stage: the text the uploader wrote, as code points
    raw_codec,      \* encoding stage: the codec the uploader wrote it in
    file_bytes,     \* encoding stage: the uploaded bytes
    initial_chunk,  \* encoding stage: the first bytes of the upload, for the probe
    encoding,       \* encoding stage: the encoding the probe settled on
    encoding_found, \* encoding stage: whether a trial decode succeeded
    file_content,   \* encoding stage: the decoded text handed to the parser
    encoding_pc,    \* encoding stage: "rest", "input", "encoded" or "done"
    file_info,      \* cleaning stage: the analysed file, its content included
    config,         \* cleaning stage: the cleaning operations that are enabled
    cleaned,        \* cleaning stage: the result of apply_cleaning_operations
    recleaned,      \* cleaning stage: the result of applying it to cleaned_content
    clean_pc,       \* cleaning stage: "rest", "input", "cleaned" or "recleaned"
    files,          \* session stage: request.files of the analyze_csv request
    content_length, \* session stage: whether the request has a Content-Length
    session,        \* session stage: analysis_results and temp_files, or nothing
    clean_response, \* session stage: what clean_data answers
    session_pc,     \* session stage: "rest", "input", "analysed" or "cleaned"
    flight,         \* trim stage: the table, still at first and moving later
    trim_start,     \* trim stage: the start index trim_static_start settles on
    trim_pc,        \* trim stage: "rest", "input" or "done"
    points_df,      \* points stage: the table, position columns resolved
    points_rate,    \* points stage: the sample_rate argument
    processed_data, \* points stage: what process_csv_data returns
    points_pc,      \* points stage: "rest", "input" or "done"
    csv_content,    \* read stage: the first line of the file and its further lines
    is_large_file,  \* read stage: the is_large_file argument
    loaded,         \* read stage: the header decision and the table that is read
    read_pc,        \* read stage: "rest", "input" or "done"
    df_clean,       \* metrics stage: the table of analyze_csv_file
    trajectory_metrics, \* metrics stage: the metrics of the analysis
    metrics_pc      \* metrics stage: "rest", "input" or "done"

vars_header == <<first_line, header_pc, has_headers>>
vars_sample == <<traj, sample_rate, sample_pc, result>>
vars_detect == <<df, detect_pc, alt_columns, resolved>>

vars_encoding ==
    <<raw_text, raw_codec, file_bytes, initial_chunk, encoding, encoding_found, file_content,
      encoding_pc>>

vars_clean == <<file_info, config, cleaned, recleaned, clean_pc>>
vars_session == <<files, content_length, session, clean_response, session_pc>>
vars_trim == <<flight, trim_start, trim_pc>>
vars_points == <<points_df, points_rate, processed_data, points_pc>>
vars_read == <<csv_content, is_large_file, loaded, read_pc>>
vars_metrics == <<df_clean, trajectory_metrics, metrics_pc>>

\* What a stage leaves alone: the variables of the other stages.
others_header ==
    <<vars_sample, vars_detect, vars_encoding, vars_clean, vars_session, vars_trim, vars_points,
     vars_read, vars_metrics>>
others_sample ==
    <<vars_header, vars_detect, vars_encoding, vars_clean, vars_session, vars_trim, vars_points,
     vars_read, vars_metrics>>
others_detect ==
    <<vars_header, vars_sample, vars_encoding, vars_clean, vars_session, vars_trim, vars_points,
     vars_read, vars_metrics>>
others_encoding ==
    <<vars_header, vars_sample, vars_detect, vars_clean, vars_session, vars_trim, vars_points,
     vars_read, vars_metrics>>
others_clean ==
    <<vars_header, vars_sample, vars_detect, vars_encoding, vars_session, vars_trim, vars_points,
     vars_read, vars_metrics>>
others_trim ==
    <<vars_header, vars_sample, vars_detect, vars_encoding, vars_clean, vars_session,
      vars_points, vars_read, vars_metrics>>
others_points ==
    <<vars_header, vars_sample, vars_detect, vars_encoding, vars_clean, vars_session,
      vars_trim, vars_read, vars_metrics>>
others_read ==
    <<vars_header, vars_sample, vars_detect, vars_encoding, vars_clean, vars_session,
      vars_trim, vars_points, vars_metrics>>
others_metrics ==
    <<vars_header, vars_sample, vars_detect, vars_encoding, vars_clean, vars_session,
      vars_trim, vars_points, vars_read>>
others_session ==
    <<vars_header, vars_sample, vars_detect, vars_encoding, vars_clean, vars_trim, vars_points,
     vars_read, vars_metrics>>

(***************************************************************************)
(* Strings.  Python's str operations, on TLA+ strings.                     *)
(***************************************************************************)
CharAt(s, i) == SubSeq(s, i, i)

\* str.isdigit() on ASCII text: non-empty and every character a digit.
Digits == {"0", "1", "2", "3", "4", "5", "6", "7", "8", "9"}

IsDigitStr(s) == Len(s) > 0 /\ \A i \in 1..Len(s) : CharAt(s, i) \in Digits

\* s.replace(c, '') for a one-character c.
RECURSIVE RemoveChar(_, _)
RemoveChar(s, c) ==
    IF Len(s) = 0 THEN ""
    ELSE IF Head(s) = c THEN RemoveChar(Tail(s), c)
    ELSE CharAt(s, 1) \o RemoveChar(Tail(s), c)

\* s.strip() for the blank " ".
RECURSIVE LStrip(_)
LStrip(s) == IF Len(s) > 0 /\ CharAt(s, 1) = " " THEN LStrip(Tail(s)) ELSE s

RECURSIVE RStrip(_)
RStrip(s) ==
    IF Len(s) > 0 /\ CharAt(s, Len(s)) = " "
    THEN RStrip(SubSeq(s, 1, Len(s) - 1)) ELSE s

Strip(s) == RStrip(LStrip(s))

\* s.split(','): the fields between the commas, empty fields included.
RECURSIVE SplitFrom(_, _, _)
SplitFrom(s, start, i) ==
    IF i > Len(s) THEN <<SubSeq(s, start, Len(s))>>
    ELSE IF CharAt(s, i) = ","
         THEN <<SubSeq(s, start, i - 1)>> \o SplitFrom(s, i + 1, i + 1)
         ELSE SplitFrom(s, start, i + 1)

SplitComma(s) == SplitFrom(s, 1, 1)

\* True iff sub occurs in s (Python's `sub in s`; the empty string occurs everywhere).
Contains(s, sub) ==
    \E i \in 1..(Len(s) - Len(sub) + 1) : SubSeq(s, i, i + Len(sub) - 1) = sub

(***************************************************************************)
(* Header detection of process_csv_data.                                   *)
(***************************************************************************)
\* col.replace('-', '').replace('.', '').replace('e', '').replace('+', '').isdigit()
LooksNumericNoE(col) ==
    IsDigitStr(RemoveChar(RemoveChar(col, "-"), "."))

LooksNumeric(col) ==
    IsDigitStr(RemoveChar(RemoveChar(RemoveChar(RemoveChar(col, "-"), "."), "e"), "+"))

\* The same decision with the exponent marks left in place: the test of
\* analyze_csv_file, put where process_csv_data's test belongs.
DetectHeaders_NoExponent(line) ==
    LET fields == SplitComma(Strip(line))
    IN  ~ \A k \in 1..Len(fields) :
            Strip(fields[k]) # "" => LooksNumericNoE(fields[k])

\* has_headers = not all(<looks numeric> for col in first_line.split(',') if col.strip())
\* where first_line = f.readline().strip()
DetectHeaders(line) ==
    LET fields == SplitComma(Strip(line))
    IN  ~ \A k \in 1..Len(fields) :
            Strip(fields[k]) # "" => LooksNumeric(fields[k])

\* Bounds of the header stage.
MaxLineLen == 4
LineChars == {"1", "-", ".", "e", "+", "a", ",", " "}

InitHeader ==
    /\ first_line = ""
    /\ header_pc = "input"
    /\ has_headers = FALSE

RestHeader ==
    /\ first_line = ""
    /\ header_pc = "rest"
    /\ has_headers = FALSE

\* The caller's content: one more character of the first line.
TypeChar ==
    /\ header_pc = "input"
    /\ Len(first_line) < MaxLineLen
    /\ \E c \in LineChars : first_line' = first_line \o c
    /\ UNCHANGED <<header_pc, has_headers, others_header>>

\* process_csv_data reads the first line and decides.
ReadFirstLine ==
    /\ header_pc = "input"
    /\ has_headers' = DetectHeaders(first_line)
    /\ header_pc' = "done"
    /\ UNCHANGED <<first_line, others_header>>

NextHeader == TypeChar \/ ReadFirstLine

(***************************************************************************)
(* Header detection: the claim.                                            *)
(***************************************************************************)
\* The decimal numbers: [sign] digits [. [digits]] [e [sign] digits], or with
\* a leading point, as Python's float() reads them.
DropSign(s) == IF Len(s) > 0 /\ CharAt(s, 1) \in {"-", "+"} THEN Tail(s) ELSE s

IsMantissa(m) ==
    \/ IsDigitStr(m)
    \/ \E k \in 1..Len(m) :
          /\ CharAt(m, k) = "."
          /\ LET a == SubSeq(m, 1, k - 1)
                 b == SubSeq(m, k + 1, Len(m))
             IN  /\ a = "" \/ IsDigitStr(a)
                 /\ b = "" \/ IsDigitStr(b)
                 /\ a # "" \/ b # ""

IsDecimal(s) ==
    LET u == DropSign(s)
    IN  \/ IsMantissa(u)
        \/ \E k \in 1..Len(u) :
              /\ CharAt(u, k) = "e"
              /\ IsMantissa(SubSeq(u, 1, k - 1))
              /\ IsDigitStr(DropSign(SubSeq(u, k + 1, Len(u))))

NonBlankFields(line) ==
    LET fields == SplitComma(Strip(line))
    IN  {fields[k] : k \in {j \in 1..Len(fields) : Strip(fields[j]) # ""}}

NumericMarks == {"-", ".", "e", "+"}

\* Only digits and the four marks, and at least one digit.
DigitsAndMarks(col) ==
    /\ \A i \in 1..Len(col) : CharAt(col, i) \in Digits \cup NumericMarks
    /\ \E i \in 1..Len(col) : CharAt(col, i) \in Digits

TheOne(S) == CHOOSE x \in S : TRUE

Max(a, b) == IF a >= b THEN a ELSE b
Min(a, b) == IF a <= b THEN a ELSE b

\* Bounds of the sampling stage.
MaxThousands == 2
MaxSmallRows == 3
MaxSampleRate == 3

\* max(1, len(df) // 1000)
AutoTarget == 1000

\* altitude_scale = 1.8, in tenths
AltitudeScale10 == 18

\* Row counts at both sides of every multiple of the auto-sampling target.
RowCounts ==
    {r \in 0..(MaxThousands * AutoTarget + MaxSmallRows) :
        \/ r % AutoTarget <= MaxSmallRows
        \/ r % AutoTarget >= AutoTarget - MaxSmallRows}

Starts == {<<0, 0, 0>>, <<1, 2, 2>>}
Steps == {<<0, 0, 0>>, <<3, 4, 0>>, <<0, 0, 1>>}
Kinds == {"line", "zigzag"}

Trajectories ==
    [rows : RowCounts, start : Starts, step : Steps, kind : Kinds]

\* df.iloc[i]: the position columns of row i.
RowAt(t, i) ==
    LET m == IF t.kind = "line" THEN i ELSE i % 2
    IN  [position_n |-> t.start[1] + m * t.step[1],
         position_e |-> t.start[2] + m * t.step[2],
         position_d |-> t.start[3] + m * t.step[3]]

\* math.sqrt, floored: the largest r in lo..hi with r * r <= n.
RECURSIVE ISqrtIn(_, _, _)
ISqrtIn(n, lo, hi) ==
    IF lo >= hi THEN lo
    ELSE LET mid == (lo + hi + 1) \div 2
         IN  IF mid * mid <= n THEN ISqrtIn(n, mid, hi) ELSE ISqrtIn(n, lo, mid - 1)

ISqrt(n) == ISqrtIn(n, 0, Min(n, 46340))

\* An explicit rate is taken only when it is above 1.
SamplingFactor_IgnoresRate(rate, len) == Max(1, len \div AutoTarget)

SamplingFactor(rate, len) ==
    IF rate > 1 THEN rate ELSE Max(1, len \div AutoTarget)

\* The length of range(0, len(df) - 1, sampling_factor): the stop one too low.
RangeLen_StopsEarly(len, f) == Cardinality({k \in 0..(len - 1) : k * f < len - 1})

\* The length of range(0, len(df), sampling_factor): its indices are the
\* k * sampling_factor below len(df), for k = 0, 1, 2, ...
RangeLen(len, f) == Cardinality({k \in 0..(len - 1) : k * f < len})

\* position = {x: north, y: east, z: -down * altitude_scale}, in tenths
Position10(row) ==
    [x |-> 10 * row.position_n,
     y |-> 10 * row.position_e,
     z |-> (0 - row.position_d) * AltitudeScale10]

\* The segment without the squares and the root: the sum of the differences.
SegmentDistance10_Signed(prev, cur) ==
    LET dx == cur.x - prev.x
        dy == cur.y - prev.y
        dz == cur.z - (prev.z * 10) \div AltitudeScale10
    IN  dx + dy + dz

\* dx, dy as they are; dz = position['z'] - previous_position['z'] / altitude_scale
SegmentDistance10(prev, cur) ==
    LET dx == cur.x - prev.x
        dy == cur.y - prev.y
        dz == cur.z - (prev.z * 10) \div AltitudeScale10
    IN  ISqrt(dx * dx + dy * dy + dz * dz)

\* metadata['distance'] after the loop: the segments lo..hi of the emitted
\* points, segment k joining point k and point k + 1.
RECURSIVE SumSegments(_, _, _)
SumSegments(pts, lo, hi) ==
    IF lo > hi THEN 0
    ELSE IF lo = hi
         THEN SegmentDistance10(Position10(pts[lo]), Position10(pts[lo + 1]))
         ELSE LET mid == (lo + hi) \div 2
              IN  SumSegments(pts, lo, mid) + SumSegments(pts, mid + 1, hi)

\* The points of the loop, in the order the loop appends them.  The field
\* row, which the program does not emit, records the row a point was read from.
TrajectoryPoints(t, f) ==
    [k \in 1..RangeLen(t.rows, f) |->
        LET i == (k - 1) * f
            r == RowAt(t, i)
        IN  [row |-> i,
             position_n |-> r.position_n,
             position_e |-> r.position_e,
             position_d |-> r.position_d]]

ProcessResult(t, rate) ==
    LET f   == SamplingFactor(rate, t.rows)
        pts == TrajectoryPoints(t, f)
    IN  [data |-> pts,
         metadata |-> [points_count    |-> Len(pts),
                       original_count  |-> t.rows,
                       distance10      |-> SumSegments(pts, 1, Len(pts) - 1),
                       sampling_factor |-> f]]

NoTrajectory == [rows |-> 0, start |-> <<0, 0, 0>>, step |-> <<0, 0, 0>>, kind |-> "line"]
NoResult == ProcessResult(NoTrajectory, 1)

InitSample ==
    /\ traj \in Trajectories
    /\ sample_rate \in 1..MaxSampleRate
    /\ sample_pc = "input"
    /\ result = NoResult

RestSample ==
    /\ traj = NoTrajectory
    /\ sample_rate = 1
    /\ sample_pc = "rest"
    /\ result = NoResult

\* process_csv_data, from the choice of the sampling factor to the result.
SampleRows ==
    /\ sample_pc = "input"
    /\ result' = ProcessResult(traj, sample_rate)
    /\ sample_pc' = "done"
    /\ UNCHANGED <<traj, sample_rate, others_sample>>

NextSample == SampleRows

(***************************************************************************)
(* The sampling stage: the claims.                                         *)
(***************************************************************************)
CeilDiv(a, b) == (a + b - 1) \div b

\* The points are the rows 0, f, 2f, ... of the table, ceil(rows / f) of them.
EveryNthRow(f) ==
    /\ Len(result.data) = CeilDiv(traj.rows, f)
    /\ \A k \in 1..Len(result.data) :
          LET r == RowAt(traj, (k - 1) * f)
          IN  /\ result.data[k].row = (k - 1) * f
              /\ result.data[k].position_n = r.position_n
              /\ result.data[k].position_e = r.position_e
              /\ result.data[k].position_d = r.position_d

\* C1 as stated: with the default sample rate process_csv_data never returns
\* more than 1000 points, whatever the number of rows.
C1_DefaultAtMostThousandPoints ==
    (sample_pc = "done" /\ sample_rate = 1) => Len(result.data) <= 1000

\* C2: a table of R >= 1 rows yields ceil(R / f) points for the reported
\* sampling factor f, which is max(1, R // 1000) by default; the points are
\* the rows 0, f, 2f, ... in row order, points_count is the length of data and
\* original_count is R.
C2_PointsAreEveryFthRow ==
    (sample_pc = "done" /\ traj.rows >= 1) =>
        LET f == result.metadata.sampling_factor
        IN  /\ f >= 1
            /\ sample_rate = 1 => f = Max(1, traj.rows \div 1000)
            /\ EveryNthRow(f)
            /\ result.metadata.points_count = Len(result.data)
            /\ result.metadata.original_count = traj.rows

\* C2 witness: 2001 rows at the default rate give factor 2 and 1001 points.
C2_Witness ==
    /\ sample_pc = "done"
    /\ sample_rate = 1
    /\ traj.rows = 2001
    /\ result.metadata.sampling_factor = 2
    /\ Len(result.data) = 1001
    /\ result.data[1001].row = 2000

\* C3 as stated: every explicit rate N >= 1 is the reported sampling factor
\* and every Nth row is emitted; a rate of 1 emits every row.
C3_ExplicitRateIsTaken ==
    (sample_pc = "done" /\ sample_rate >= 1) =>
        /\ result.metadata.sampling_factor = sample_rate
        /\ EveryNthRow(sample_rate)

\* C3 amended: a rate N >= 2 is the reported sampling factor and every Nth
\* row is emitted; a rate of 1 is the default and gets the automatic factor
\* max(1, R // 1000), so that every row is emitted only below 2000 rows.
C3_RateAboveOneIsTaken ==
    sample_pc = "done" =>
        /\ sample_rate >= 2 =>
              /\ result.metadata.sampling_factor = sample_rate
              /\ EveryNthRow(sample_rate)
        /\ sample_rate = 1 =>
              /\ result.metadata.sampling_factor = Max(1, traj.rows \div 1000)
              /\ traj.rows < 2000 => EveryNthRow(1)
              /\ traj.rows >= 2000 => Len(result.data) < traj.rows

\* C3 witness: rate 2 on 1003 rows, where the automatic factor would be 1.
C3_Witness ==
    /\ sample_pc = "done"
    /\ sample_rate = 2
    /\ traj.rows = 1003
    /\ result.metadata.sampling_factor = 2
    /\ Len(result.data) = 502

\* The true distance of two points, in tenths.
TrueSegment10(p, q) ==
    LET dn == 10 * (q.position_n - p.position_n)
        de == 10 * (q.position_e - p.position_e)
        dd == 10 * (q.position_d - p.position_d)
    IN  ISqrt(dn * dn + de * de + dd * dd)

RECURSIVE TrueLength10(_, _, _)
TrueLength10(pts, lo, hi) ==
    IF lo > hi THEN 0
    ELSE IF lo = hi THEN TrueSegment10(pts[lo], pts[lo + 1])
    ELSE LET mid == (lo + hi) \div 2
         IN  TrueLength10(pts, lo, mid) + TrueLength10(pts, mid + 1, hi)

\* C10 as stated: the distance of the metadata is the sum of the Euclidean
\* distances between consecutive emitted points, the altitude scale divided
\* out; points that share one position give distance 0.
C10_DistanceIsTrueLength ==
    sample_pc = "done" =>
        result.metadata.distance10 = TrueLength10(result.data, 1, Len(result.data) - 1)

\* metadata['distance'] after each pass of the loop: the value after the
\* points lo..hi, where base is the value before point lo.  The first point has
\* no previous_position and adds nothing.
RECURSIVE RunningDistance10(_, _, _, _)
RunningDistance10(pts, lo, hi, base) ==
    IF lo > hi THEN <<>>
    ELSE IF lo = hi
    THEN IF lo = 1 THEN <<base>>
         ELSE <<base + SegmentDistance10(Position10(pts[lo - 1]), Position10(pts[lo]))>>
    ELSE LET mid == (lo + hi) \div 2
         IN  TheOne({left \o RunningDistance10(pts, mid + 1, hi, left[Len(left)]) :
                        left \in {RunningDistance10(pts, lo, mid, base)}})

\* C11: the cumulative distance starts at 0, is never negative, never
\* decreases from one emitted point to the next, and ends as the distance of
\* the metadata.
C11_DistanceNeverDecreases ==
    sample_pc = "done" =>
        LET running == RunningDistance10(result.data, 1, Len(result.data), 0)
        IN  /\ Len(running) = Len(result.data)
            /\ Len(running) > 0 =>
                  /\ running[1] = 0
                  /\ running[Len(running)] = result.metadata.distance10
            /\ \A k \in 1..Len(running) : running[k] >= 0
            /\ \A k \in 1..(Len(running) - 1) : running[k] <= running[k + 1]

\* C11 witness: a zigzag of 1003 rows that goes back and forth, every row
\* emitted, and a distance that has grown.
C11_Witness ==
    /\ sample_pc = "done"
    /\ traj.kind = "zigzag" /\ traj.step = <<3, 4, 0>> /\ traj.rows = 1003
    /\ Len(result.data) = 1003
    /\ result.data[3].position_n < result.data[2].position_n
    /\ result.metadata.distance10 > 0

(***************************************************************************)
(* The resolution stage: detect_position_columns and the renaming of       *)
(* process_csv_data.                                                       *)
(*                                                                         *)
(* A column is its name, its dtype ("number" or "object") and, for a       *)
(* number column, its values.  Every table has two rows, so that a         *)
(* column's standard deviation is |a - b| / sqrt(2) and its mean           *)
(* (a + b) / 2: columns are ranked by |a - b| and twice the mean is        *)
(* compared.  read_csv keeps the names of a header distinct.               *)
(***************************************************************************)
LowerOf ==
    [c \in {"A", "B", "C", "D", "E", "F", "G", "H", "I", "J", "K", "L", "M", "N",
            "O", "P", "Q", "R", "S", "T", "U", "V", "W", "X", "Y", "Z"} |->
        CASE c = "A" -> "a" [] c = "B" -> "b" [] c = "C" -> "c" [] c = "D" -> "d"
          [] c = "E" -> "e" [] c = "F" -> "f" [] c = "G" -> "g" [] c = "H" -> "h"
          [] c = "I" -> "i" [] c = "J" -> "j" [] c = "K" -> "k" [] c = "L" -> "l"
          [] c = "M" -> "m" [] c = "N" -> "n" [] c = "O" -> "o" [] c = "P" -> "p"
          [] c = "Q" -> "q" [] c = "R" -> "r" [] c = "S" -> "s" [] c = "T" -> "t"
          [] c = "U" -> "u" [] c = "V" -> "v" [] c = "W" -> "w" [] c = "X" -> "x"
          [] c = "Y" -> "y" [] c = "Z" -> "z"]

\* str.lower()
RECURSIVE Lower(_)
Lower(s) ==
    IF Len(s) = 0 THEN ""
    ELSE (IF CharAt(s, 1) \in DOMAIN LowerOf THEN LowerOf[CharAt(s, 1)] ELSE CharAt(s, 1))
         \o Lower(Tail(s))

SetMin(S) == CHOOSE x \in S : \A y \in S : x <= y

Roles == <<"position_n", "position_e", "position_d">>

\* position_patterns
PositionPatterns(role) ==
    CASE role = "position_n" ->
           <<"n", "north", "x", "pos_n", "position_north", "pos_north", "position_x",
             "pos_x", "posx", "nx", "northx", "latitude", "lat", "posn", "position n">>
      [] role = "position_e" ->
           <<"e", "east", "y", "pos_e", "position_east", "pos_east", "position_y",
             "pos_y", "posy", "ey", "easty", "longitude", "lon", "long", "pose",
             "position e">>
      [] role = "position_d" ->
           <<"d", "down", "z", "alt", "altitude", "pos_d", "position_down", "pos_down",
             "position_z", "pos_z", "posz", "dz", "downz", "height", "elev",
             "elevation", "depth", "posd", "position d">>

ColumnNames(t) == [i \in 1..Len(t) |-> t[i].name]
HasColumn(t, name) == \E i \in 1..Len(t) : t[i].name = name

\* df.select_dtypes(include=['number']).columns: the indices, in table order
NumericIndices(t) == {i \in 1..Len(t) : t[i].dtype = "number"}

\* The k-th element of a set of indices, in increasing order.
NthOf(S, k) == CHOOSE i \in S : Cardinality({j \in S : j < i}) = k - 1

ColMin(c) == Min(c.vals[1], c.vals[2])
ColMax(c) == Max(c.vals[1], c.vals[2])
ColSpread(c) == ColMax(c) - ColMin(c)
ColTwiceMean(c) == c.vals[1] + c.vals[2]

\* ''.join(str(col).lower() for col in df.columns)
RECURSIVE JoinLower(_, _)
JoinLower(t, i) == IF i > Len(t) THEN "" ELSE Lower(t[i].name) \o JoinLower(t, i + 1)

\* has_ros_structure
HasRosStructure(t) ==
    \/ \E ts \in {"sec", "nanosec"} : Contains(JoinLower(t, 1), ts)
    \/ Len(t) >= 2 /\ \E i \in 1..2 : Contains(t[i].name, "1741")

NotFound == [found |-> FALSE, pairs |-> {}]
Found(pairs) == [found |-> TRUE, pairs |-> pairs]

\* {cols[0]: 'position_n', cols[1]: 'position_e', cols[2]: 'position_d'} for
\* the columns at the indices a, b, c (from 1)
TripleAt(t, a, b, c) ==
    {<<t[a].name, "position_n">>, <<t[b].name, "position_e">>, <<t[c].name, "position_d">>}

\* The candidate index triples of the ROS2 block, from 1: [3,4,5], [5,6,7], [0,1,2].
CandidateColumnSets == <<<<4, 5, 6>>, <<6, 7, 8>>, <<1, 2, 3>>>>

\* A candidate triple is taken when its columns exist, are numeric and
\* have all their values inside (-100000, 100000).
TripleLooksLikePosition(t, tr) ==
    /\ \A k \in 1..3 : tr[k] <= Len(t)
    /\ \A k \in 1..3 : tr[k] \in NumericIndices(t)
    /\ \A k \in 1..3 :
          /\ -100000 < ColMin(t[tr[k]]) /\ ColMin(t[tr[k]]) < 100000
          /\ -100000 < ColMax(t[tr[k]]) /\ ColMax(t[tr[k]]) < 100000

\* The ROS2 block at the head of detect_position_columns.
RosTriple(t) ==
    IF HasRosStructure(t) /\ Len(t) >= 6
    THEN LET good == {k \in 1..3 : TripleLooksLikePosition(t, CandidateColumnSets[k])}
         IN  IF good = {} THEN NotFound
             ELSE LET tr == CandidateColumnSets[SetMin(good)]
                  IN  Found(TripleAt(t, tr[1], tr[2], tr[3]))
    ELSE NotFound

\* [str(col).lower() for col in df.columns]
LowerNames(t) == [i \in 1..Len(t) |-> Lower(t[i].name)]

\* The column one pattern selects among the lowered names: the first exact
\* match, else the first partial match (either string inside the other),
\* else 0.
PatternHit(low, pattern) ==
    LET pat == Lower(pattern)
        exact == {i \in 1..Len(low) : low[i] = pat}
        partial == {i \in 1..Len(low) :
                       Contains(low[i], pat) \/ Contains(pat, low[i])}
    IN  IF exact # {} THEN SetMin(exact)
        ELSE IF partial # {} THEN SetMin(partial)
        ELSE 0

\* The patterns of a role, tried in order from the k-th: the column of the
\* first pattern that selects one, or 0.
RECURSIVE FirstPatternHit(_, _, _)
FirstPatternHit(low, pats, k) ==
    IF k > Len(pats) THEN 0
    ELSE LET hit == PatternHit(low, pats[k])
         IN  IF hit # 0 THEN hit ELSE FirstPatternHit(low, pats, k + 1)

\* The column a role gets, or 0; a role whose standard name is a column
\* already is skipped.
RoleHit(t, low, role) ==
    IF HasColumn(t, role) THEN 0
    ELSE FirstPatternHit(low, PositionPatterns(role), 1)

\* result[col] = role: a dict keeps one role per column, the last one written.
\* result[col] = role on a dictionary that keeps the old entry of the key.
Put_KeepsOldEntry(pairs, col, role) == pairs \cup {<<col, role>>}

Put(pairs, col, role) == {q \in pairs : q[1] # col} \cup {<<col, role>>}

RECURSIVE NameMatchingFrom(_, _, _, _)
NameMatchingFrom(t, low, k, pairs) ==
    IF k > Len(Roles) THEN pairs
    ELSE LET hit == RoleHit(t, low, Roles[k])
         IN  NameMatchingFrom(t, low, k + 1,
                 IF hit = 0 THEN pairs ELSE Put(pairs, t[hit].name, Roles[k]))

\* The loop over position_patterns.
NameMatching(t) == NameMatchingFrom(t, LowerNames(t), 1, {})

\* Columns whose name holds 'e-' or 'e+'.
ScientificIndices(t) ==
    {i \in 1..Len(t) : Contains(t[i].name, "e-") \/ Contains(t[i].name, "e+")}

\* The scientific-notation block; it applies with three such names and then
\* always returns.
ScientificMapping(t) ==
    LET sci == ScientificIndices(t)
        num == NumericIndices(t)
        eC  == {i \in num : Contains(t[i].name, "e-")}
        dC  == {i \in num \ eC :
                   ColTwiceMean(t[i]) < 0 /\ -20 < ColTwiceMean(t[i])}
        nC  == {i \in num \ (eC \cup dC) :
                   0 < ColTwiceMean(t[i]) /\ ColTwiceMean(t[i]) < 20 /\ ColMin(t[i]) > -1}
    IN  IF nC # {} /\ eC # {} /\ dC # {}
        THEN Found(TripleAt(t, SetMin(nC), SetMin(eC), SetMin(dC)))
        ELSE Found(TripleAt(t, NthOf(sci, 1), NthOf(sci, 2), NthOf(sci, 3)))

\* The numeric columns that vary and stay inside (-1000000, 1000000).
PositionCandidates(t) ==
    {i \in NumericIndices(t) :
        /\ ColSpread(t[i]) > 0
        /\ -1000000 < ColMin(t[i]) /\ ColMin(t[i]) < 1000000
        /\ -1000000 < ColMax(t[i]) /\ ColMax(t[i]) < 1000000
        /\ ColMin(t[i]) # ColMax(t[i])}

\* position_candidates.sort(key=std, reverse=True): the place of a candidate,
\* from 1; the sort is stable.
RankByDeviation(t, i) ==
    1 + Cardinality({j \in PositionCandidates(t) :
            \/ ColSpread(t[j]) > ColSpread(t[i])
            \/ ColSpread(t[j]) = ColSpread(t[i]) /\ j < i})

\* The statistical block.
StatisticalMapping(t) ==
    LET cand == PositionCandidates(t)
        at(r) == CHOOSE i \in cand : RankByDeviation(t, i) = r
    IN  IF Cardinality(NumericIndices(t)) >= 3 /\ Cardinality(cand) >= 3
        THEN Found(TripleAt(t, at(1), at(2), at(3)))
        ELSE NotFound

\* The second use of the indices 3, 4, 5.
RosFallback(t) ==
    IF HasRosStructure(t) /\ Len(t) >= 6 /\ {4, 5, 6} \subseteq NumericIndices(t)
    THEN Found(TripleAt(t, 4, 5, 6))
    ELSE NotFound

\* The last resort asks for more than three numeric columns.
LastResortApplies_MoreThanThree(t) == Cardinality(NumericIndices(t)) > 3

\* infer_from_numeric and len(numeric_columns) >= 3
LastResortApplies(t) == Cardinality(NumericIndices(t)) >= 3

\* The first three numeric columns.
LastResort(t) ==
    LET num == NumericIndices(t)
    IN  Found(TripleAt(t, NthOf(num, 1), NthOf(num, 2), NthOf(num, 3)))

\* The x / y / z defaults, added to what the name matching found.
XyzDefaults(t, pairs) ==
    LET named(S) == {i \in 1..Len(t) : Lower(t[i].name) \in S}
        roles(ps) == {q[2] : q \in ps}
        xs == named({"x", "col0", "0"})
        ys == named({"y", "col1", "1"})
        zs == named({"z", "col2", "2"})
        p1 == IF xs # {} /\ "position_n" \notin roles(pairs)
              THEN Put(pairs, t[SetMin(xs)].name, "position_n") ELSE pairs
        p2 == IF ys # {} /\ "position_e" \notin roles(p1)
              THEN Put(p1, t[SetMin(ys)].name, "position_e") ELSE p1
        p3 == IF zs # {} /\ "position_d" \notin roles(p2)
              THEN Put(p2, t[SetMin(zs)].name, "position_d") ELSE p2
    IN  IF Cardinality(pairs) < 3 THEN p3 ELSE pairs

\* detect_position_columns: the blocks in the order of the code.
DetectPositionColumns(t) ==
    LET byName == NameMatching(t)
        last   == XyzDefaults(t, byName)
    IN  IF RosTriple(t).found THEN RosTriple(t)
        ELSE IF Cardinality(byName) = 3 THEN Found(byName)
        ELSE IF Cardinality(ScientificIndices(t)) >= 3 THEN ScientificMapping(t)
        ELSE IF StatisticalMapping(t).found THEN StatisticalMapping(t)
        ELSE IF RosFallback(t).found THEN RosFallback(t)
        ELSE IF LastResortApplies(t) THEN LastResort(t)
        ELSE IF Cardinality(last) = 3 THEN Found(last)
        ELSE NotFound

\* df.rename(columns=mapping): the names after renaming.
Renamed(t, pairs) ==
    [i \in 1..Len(t) |->
        IF \E q \in pairs : q[1] = t[i].name
        THEN (CHOOSE q \in pairs : q[1] = t[i].name)[2]
        ELSE t[i].name]

\* The renaming step of process_csv_data: nothing to do when the three
\* standard names are columns; else the detected mapping; else the indices
\* 3, 4, 5 behind a first column named by 10 digits or more; else the error.
ResolveColumns(t, alt) ==
    IF \A k \in 1..3 : HasColumn(t, Roles[k])
    THEN [error |-> "none", columns |-> ColumnNames(t)]
    ELSE IF alt.found
    THEN [error |-> "none", columns |-> Renamed(t, alt.pairs)]
    ELSE IF /\ Len(t) >= 2
            /\ IsDigitStr(t[1].name) /\ Len(t[1].name) >= 10
            /\ Len(t) >= 6
    THEN [error |-> "none", columns |-> Renamed(t, TripleAt(t, 4, 5, 6))]
    ELSE [error |-> "Missing required position columns", columns |-> ColumnNames(t)]

\* Bounds of the resolution stage: the columns of a table with a header, and
\* of a table without one.
MaxCols == 6
MaxHeaderless == 4

Col(name, dtype, a, b) == [name |-> name, dtype |-> dtype, vals |-> <<a, b>>]

\* Columns of a file with a header: timestamps, named positions, columns no
\* pattern matches (one constant, one far from the origin), one of text.
NamedPool ==
    {Col("sec", "number", 1000000000, 1000000001),
     Col("North", "number", 0, 30),
     Col("east", "number", 0, 40),
     Col("down", "number", -5, -6),
     Col("q1", "number", 7, 7),
     Col("k2", "number", 1, 100),
     Col("m3", "number", 200000, 200001),
     Col("tag", "object", 0, 0)}

\* Columns of a file whose first data row was read as the header.
ScientificPool ==
    {Col("8.5e-05", "number", 0, 1),
     Col("2e-06", "number", -3, -1),
     Col("1e+02", "number", 1, 3),
     Col("c9", "number", -2, -2)}

\* Columns behind a first column named by a Unix timestamp.
TimestampPool ==
    {Col("1741000000", "number", 0, 1),
     Col("0", "number", 3, 3),
     Col("map", "object", 0, 0),
     Col("b1", "object", 0, 0),
     Col("b2", "object", 0, 0),
     Col("b3", "object", 0, 0)}

\* f'col{i}' for i in range(len(df.columns))
SyntheticName(i) == "col" \o <<"0", "1", "2", "3", "4", "5", "6", "7", "8", "9">>[i + 1]

\* Columns of a file without a header.
HeaderlessPool ==
    UNION {{Col(SyntheticName(i), "number", 1, 7 + i),
            Col(SyntheticName(i), "number", 4, 4),
            Col(SyntheticName(i), "object", 0, 0)} : i \in 0..(MaxHeaderless - 1)}

\* Columns of a file that already has standard names, with others.
StandardPool ==
    {Col("position_n", "number", 0, 30),
     Col("position_e", "number", 0, 40),
     Col("position_d", "number", -5, -6),
     Col("q1", "number", 7, 7),
     Col("k2", "number", 1, 100),
     Col("m3", "number", 200000, 200001)}

Pools == {NamedPool, ScientificPool, TimestampPool, HeaderlessPool, StandardPool}

\* One more column keeps the table inside one pool, its names distinct, and
\* the synthetic names col0, col1, ... in their places.
CanAppend(t, c) ==
    /\ \A i \in 1..Len(t) : t[i].name # c.name
    /\ \E P \in Pools :
          /\ c \in P
          /\ \A i \in 1..Len(t) : t[i] \in P
          /\ P = NamedPool => Len(t) < MaxCols
          /\ P = HeaderlessPool => c.name = SyntheticName(Len(t))

NoResolution == [error |-> "none", columns |-> <<>>]

InitDetect ==
    /\ df = <<>>
    /\ detect_pc = "input"
    /\ alt_columns = NotFound
    /\ resolved = NoResolution

RestDetect ==
    /\ df = <<>>
    /\ detect_pc = "rest"
    /\ alt_columns = NotFound
    /\ resolved = NoResolution

\* The caller's table: one more column.
AddColumn ==
    /\ detect_pc = "input"
    /\ \E P \in Pools : \E c \in P : CanAppend(df, c) /\ df' = Append(df, c)
    /\ UNCHANGED <<detect_pc, alt_columns, resolved, others_detect>>

\* process_csv_data checks the required columns, calls
\* detect_position_columns when one is missing, and renames.
ResolvePositionColumns ==
    /\ detect_pc = "input"
    /\ LET alt == IF \A k \in 1..3 : HasColumn(df, Roles[k])
                  THEN NotFound ELSE DetectPositionColumns(df)
       IN  /\ alt_columns' = alt
           /\ resolved' = ResolveColumns(df, alt)
    /\ detect_pc' = "done"
    /\ UNCHANGED <<df, others_detect>>

NextDetect == AddColumn \/ ResolvePositionColumns

(***************************************************************************)
(* The resolution stage: the claims.                                       *)
(***************************************************************************)
\* The columns whose lowered name is an alias of the role.
ExactAliasColumns(t, role) ==
    {i \in 1..Len(t) :
        \E k \in 1..Len(PositionPatterns(role)) :
            Lower(t[i].name) = PositionPatterns(role)[k]}

RolesOf(pairs) == {q[2] : q \in pairs}
ColumnsOf(pairs) == {q[1] : q \in pairs}

AllStandardNamesPresent(t) == \A k \in 1..3 : HasColumn(t, Roles[k])

\* C4 as stated: when every position role has an exactly named column and the
\* table also has a plausible ROS2 triple (timestamp names, six columns or
\* more, numeric in-range columns at the indices 3, 4, 5), the roles go to the
\* exactly named columns.
C4_ExactNamesBeatRosTriple ==
    ( /\ detect_pc = "done"
      /\ \A k \in 1..3 : ExactAliasColumns(df, Roles[k]) # {}
      /\ HasRosStructure(df) /\ Len(df) >= 6
      /\ TripleLooksLikePosition(df, <<4, 5, 6>>) )
    => /\ alt_columns.found
       /\ \A k \in 1..3 :
             \E i \in ExactAliasColumns(df, Roles[k]) :
                 <<df[i].name, Roles[k]>> \in alt_columns.pairs

\* C5: a table with three numeric columns or more and no column named by an
\* alias gets a complete mapping from detect_position_columns, one column for
\* each of the three roles, and process_csv_data does not answer
\* 'Missing required position columns'.
C5_ThreeNumericColumnsResolve ==
    ( /\ detect_pc = "done"
      /\ Cardinality(NumericIndices(df)) >= 3
      /\ \A k \in 1..3 : ExactAliasColumns(df, Roles[k]) = {} )
    => /\ resolved.error = "none"
       /\ ~AllStandardNamesPresent(df) =>
             /\ alt_columns.found
             /\ Cardinality(alt_columns.pairs) = 3
             /\ RolesOf(alt_columns.pairs) = {"position_n", "position_e", "position_d"}
             /\ ColumnsOf(alt_columns.pairs) \subseteq {df[i].name : i \in 1..Len(df)}

\* C19: a mapping that detect_position_columns returns has exactly three
\* entries: three distinct columns of the table, one for each of position_n,
\* position_e and position_d.
C19_MappingIsThreeDistinctColumns ==
    detect_pc = "done"
        => \A m \in {alt_columns, DetectPositionColumns(df)} :
              m.found
                  => /\ Cardinality(m.pairs) = 3
                     /\ Cardinality(ColumnsOf(m.pairs)) = 3
                     /\ RolesOf(m.pairs) = {"position_n", "position_e", "position_d"}
                     /\ ColumnsOf(m.pairs) \subseteq {df[i].name : i \in 1..Len(df)}

\* C19 witness: a mapping found by name, two roles by an alias and the third
\* by a substring.
C19_Witness ==
    /\ detect_pc = "done"
    /\ alt_columns.found
    /\ alt_columns.pairs = NameMatching(df)
    /\ ~RosTriple(df).found
    /\ Len(df) > 3
    /\ \E k \in 1..3 : ExactAliasColumns(df, Roles[k]) = {}

\* C20: when every position role has a column named exactly by one of its
\* aliases, each role is assigned to such a column, none to a column that
\* matches an alias by substring only, and sec and nanosec are not taken.
C20_ExactBeforePartial ==
    ( /\ detect_pc = "done"
      /\ \A k \in 1..3 : ExactAliasColumns(df, Roles[k]) # {} )
    => /\ alt_columns.found
       /\ \A q \in alt_columns.pairs :
             /\ \E i \in ExactAliasColumns(df, q[2]) : df[i].name = q[1]
             /\ Lower(q[1]) \notin {"sec", "nanosec"}

\* C29: after the renaming of the resolved columns the column names of the
\* table are pairwise distinct, also when the input has one or two of the
\* three standard names already.
C29_RenamedColumnsAreDistinct ==
    detect_pc = "done" /\ resolved.error = "none"
        => \A i, j \in 1..Len(resolved.columns) :
              resolved.columns[i] = resolved.columns[j] => i = j

\* C5 witness: three numeric columns no pattern matches, one of them constant,
\* so that neither the names nor the deviations decide.
C5_Witness ==
    /\ detect_pc = "done"
    /\ ColumnNames(df) = <<"q1", "k2", "m3">>
    /\ NameMatching(df) = {}
    /\ ~StatisticalMapping(df).found
    /\ alt_columns = Found({<<"q1", "position_n">>, <<"k2", "position_e">>,
                            <<"m3", "position_d">>})
    /\ resolved.columns = <<"position_n", "position_e", "position_d">>

(***************************************************************************)
(* The encoding stage.  app.py, process_csv and analyze_csv: the trial      *)
(* decodes of the initial chunk, in the order of encodings_to_try, and the  *)
(* decode of the content in the encoding they settle on.  Bytes are the     *)
(* integers 0..255 and text is a sequence of code points.  The uploads of   *)
(* the model fit in the initial chunk of 256 KB, so the chunk is the file.  *)
(***************************************************************************)
encodings_to_try == <<"utf-8", "latin-1", "cp1252", "iso-8859-1", "utf-16">>

DecodeFailed == [ok |-> FALSE, text |-> <<>>]
Decoded(text) == [ok |-> TRUE, text |-> text]

\* bytes.decode('utf-8'): the length of the sequence a lead byte opens, 0 for a
\* byte that opens none.
Utf8Len(b) ==
    IF b < 128 THEN 1
    ELSE IF b \in 194..223 THEN 2
    ELSE IF b \in 224..239 THEN 3
    ELSE IF b \in 240..244 THEN 4
    ELSE 0

IsContinuation(b) == b \in 128..191

\* The second byte excludes overlong forms, surrogates and code points above
\* U+10FFFF.
Utf8SecondOk(lead, b) ==
    CASE lead = 224 -> b \in 160..191
      [] lead = 237 -> b \in 128..159
      [] lead = 240 -> b \in 144..191
      [] lead = 244 -> b \in 128..143
      [] OTHER -> IsContinuation(b)

Utf8CodePoint(bs, i, n) ==
    CASE n = 1 -> bs[i]
      [] n = 2 -> (bs[i] - 192) * 64 + (bs[i + 1] - 128)
      [] n = 3 -> (bs[i] - 224) * 4096 + (bs[i + 1] - 128) * 64 + (bs[i + 2] - 128)
      [] n = 4 -> (bs[i] - 240) * 262144 + (bs[i + 1] - 128) * 4096
                  + (bs[i + 2] - 128) * 64 + (bs[i + 3] - 128)

RECURSIVE DecodeUtf8From(_, _, _)
DecodeUtf8From(bs, i, acc) ==
    IF i > Len(bs) THEN Decoded(acc)
    ELSE LET n == Utf8Len(bs[i])
         IN  IF n = 0 \/ i + n - 1 > Len(bs) THEN DecodeFailed
             ELSE IF n > 1 /\ ( \/ ~Utf8SecondOk(bs[i], bs[i + 1])
                                \/ \E k \in 2..(n - 1) : ~IsContinuation(bs[i + k]) )
             THEN DecodeFailed
             ELSE DecodeUtf8From(bs, i + n, Append(acc, Utf8CodePoint(bs, i, n)))

DecodeUtf8(bs) == DecodeUtf8From(bs, 1, <<>>)

\* bytes.decode('latin-1'), and 'iso-8859-1', its alias: every byte is the code
\* point of its value; no byte sequence fails.
DecodeLatin1(bs) == Decoded(bs)

\* bytes.decode('cp1252'): the code points of the bytes 0x80..0x9F, 0 where
\* the code page defines none (0x81, 0x8D, 0x8F, 0x90, 0x9D).
Cp1252High ==
    << 8364, 0, 8218, 402, 8222, 8230, 8224, 8225, 710, 8240, 352, 8249, 338, 0,
       381, 0, 0, 8216, 8217, 8220, 8221, 8226, 8211, 8212, 732, 8482, 353, 8250,
       339, 0, 382, 376 >>

Cp1252CodePoint(b) == IF b \in 128..159 THEN Cp1252High[b - 127] ELSE b

DecodeCp1252(bs) ==
    IF \E i \in 1..Len(bs) : Cp1252CodePoint(bs[i]) = 0 THEN DecodeFailed
    ELSE Decoded([i \in 1..Len(bs) |-> Cp1252CodePoint(bs[i])])

\* bytes.decode('utf-16'): a byte order mark chooses the order and is dropped,
\* without one the order is the host's (little-endian); an odd length, a
\* lone or a misplaced surrogate fails.
Utf16Unit(bs, i, bigEndian) ==
    IF bigEndian THEN bs[i] * 256 + bs[i + 1] ELSE bs[i] + bs[i + 1] * 256

RECURSIVE DecodeUtf16From(_, _, _, _)
DecodeUtf16From(bs, i, bigEndian, acc) ==
    IF i > Len(bs) THEN Decoded(acc)
    ELSE IF i = Len(bs) THEN DecodeFailed
    ELSE LET u == Utf16Unit(bs, i, bigEndian)
         IN  IF u \in 56320..57343 THEN DecodeFailed
             ELSE IF u \in 55296..56319
             THEN IF i + 3 > Len(bs) THEN DecodeFailed
                  ELSE LET v == Utf16Unit(bs, i + 2, bigEndian)
                       IN  IF v \notin 56320..57343 THEN DecodeFailed
                           ELSE DecodeUtf16From(bs, i + 4, bigEndian,
                                    Append(acc, 65536 + (u - 55296) * 1024 + (v - 56320)))
             ELSE DecodeUtf16From(bs, i + 2, bigEndian, Append(acc, u))

DecodeUtf16(bs) ==
    IF Len(bs) >= 2 /\ bs[1] = 255 /\ bs[2] = 254 THEN DecodeUtf16From(bs, 3, FALSE, <<>>)
    ELSE IF Len(bs) >= 2 /\ bs[1] = 254 /\ bs[2] = 255 THEN DecodeUtf16From(bs, 3, TRUE, <<>>)
    ELSE DecodeUtf16From(bs, 1, FALSE, <<>>)

\* initial_chunk.decode(enc)
Decode(enc, bs) ==
    CASE enc = "utf-8" -> DecodeUtf8(bs)
      [] enc = "latin-1" -> DecodeLatin1(bs)
      [] enc = "cp1252" -> DecodeCp1252(bs)
      [] enc = "iso-8859-1" -> DecodeLatin1(bs)
      [] enc = "utf-16" -> DecodeUtf16(bs)

\* The uploader's side, str.encode(codec): the buffers that are encoded in
\* a codec are the images of the texts the codec can write.
EncodeUtf8CodePoint(c) ==
    IF c < 128 THEN <<c>>
    ELSE IF c < 2048 THEN <<192 + (c \div 64), 128 + (c % 64)>>
    ELSE IF c < 65536 THEN <<224 + (c \div 4096), 128 + ((c \div 64) % 64), 128 + (c % 64)>>
    ELSE <<240 + (c \div 262144), 128 + ((c \div 4096) % 64), 128 + ((c \div 64) % 64),
           128 + (c % 64)>>

EncodeUtf16CodePoint(c) ==
    IF c < 65536 THEN <<c % 256, c \div 256>>
    ELSE LET hi == 55296 + ((c - 65536) \div 1024)
             lo == 56320 + ((c - 65536) % 1024)
         IN  <<hi % 256, hi \div 256, lo % 256, lo \div 256>>

Cp1252Byte(c) ==
    IF c < 128 \/ c \in 160..255 THEN c
    ELSE 127 + (CHOOSE k \in 1..32 : Cp1252High[k] = c)

RECURSIVE Concat(_, _, _)
Concat(F(_), text, i) == IF i > Len(text) THEN <<>> ELSE F(text[i]) \o Concat(F, text, i + 1)

CanEncode(codec, text) ==
    CASE codec \in {"latin-1", "iso-8859-1"} -> \A i \in 1..Len(text) : text[i] < 256
      [] codec = "cp1252" ->
            \A i \in 1..Len(text) :
                \/ text[i] < 128 \/ text[i] \in 160..255
                \/ \E k \in 1..32 : Cp1252High[k] = text[i]
      [] OTHER -> TRUE

Encode(codec, text) ==
    CASE codec = "utf-8" -> Concat(EncodeUtf8CodePoint, text, 1)
      [] codec \in {"latin-1", "iso-8859-1"} -> text
      [] codec = "cp1252" -> [i \in 1..Len(text) |-> Cp1252Byte(text[i])]
      [] codec = "utf-16" -> <<255, 254>> \o Concat(EncodeUtf16CodePoint, text, 1)

\* The loop over encodings_to_try: the first trial decode that succeeds
\* settles the encoding; 'utf-8' stays when none does.
RECURSIVE ProbeFrom(_, _)
ProbeFrom(chunk, k) ==
    IF k > Len(encodings_to_try) THEN [encoding |-> "utf-8", found |-> FALSE]
    ELSE IF Decode(encodings_to_try[k], chunk).ok
    THEN [encoding |-> encodings_to_try[k], found |-> TRUE]
    ELSE ProbeFrom(chunk, k + 1)

Probe(chunk) == ProbeFrom(chunk, 1)

\* Bounds of the encoding stage: '1', ',', e acute, the euro sign and an
\* emoji outside the basic plane.
MaxTextLen == 3

\* initial_chunk_size, 256 KB in the code, scaled to the uploads of the
\* model: two bytes.
initial_chunk_size == 2
CodePoints == {49, 44, 233, 8364, 128512}

InitEncoding ==
    /\ raw_text = <<>>
    /\ raw_codec = "none"
    /\ file_bytes = <<>>
    /\ initial_chunk = <<>>
    /\ encoding = "utf-8"
    /\ encoding_found = FALSE
    /\ file_content = Decoded(<<>>)
    /\ encoding_pc = "input"

RestEncoding ==
    /\ raw_text = <<>>
    /\ raw_codec = "none"
    /\ file_bytes = <<>>
    /\ initial_chunk = <<>>
    /\ encoding = "utf-8"
    /\ encoding_found = FALSE
    /\ file_content = Decoded(<<>>)
    /\ encoding_pc = "rest"

\* The uploader's text: one more character.
TypeCodePoint ==
    /\ encoding_pc = "input"
    /\ Len(raw_text) < MaxTextLen
    /\ \E c \in CodePoints : raw_text' = Append(raw_text, c)
    /\ UNCHANGED <<raw_codec, file_bytes, initial_chunk, encoding, encoding_found, file_content,
                   encoding_pc, others_encoding>>

\* The upload: the text written in one of the codecs that can write it.
Upload ==
    /\ encoding_pc = "input"
    /\ \E k \in 1..Len(encodings_to_try) :
          /\ CanEncode(encodings_to_try[k], raw_text)
          /\ raw_codec' = encodings_to_try[k]
          /\ file_bytes' = Encode(encodings_to_try[k], raw_text)
    /\ encoding_pc' = "encoded"
    /\ UNCHANGED <<raw_text, initial_chunk, encoding, encoding_found, file_content,
                   others_encoding>>

\* file.read(initial_chunk_size): the first bytes of the upload, all of them
\* if it is no longer than the chunk.
ReadChunk(bytes, size) == SubSeq(bytes, 1, Min(size, Len(bytes)))

\* process_csv: the probe of the initial chunk, then
\* file.read().decode(encoding) on the whole upload.
ResolveEncoding ==
    /\ encoding_pc = "encoded"
    /\ initial_chunk' = ReadChunk(file_bytes, initial_chunk_size)
    /\ LET p == Probe(ReadChunk(file_bytes, initial_chunk_size))
       IN  /\ encoding' = p.encoding
           /\ encoding_found' = p.found
           /\ file_content' = Decode(p.encoding, file_bytes)
    /\ encoding_pc' = "done"
    /\ UNCHANGED <<raw_text, raw_codec, file_bytes, others_encoding>>

NextEncoding == TypeCodePoint \/ Upload \/ ResolveEncoding

(***************************************************************************)
(* The encoding stage: the claims.                                         *)
(***************************************************************************)
\* C7 as stated: a buffer encoded in a codec of the priority list is reported
\* in exactly that encoding, and the text is that of a reference decode in the
\* codec.
C7_EncodingReportedExactly ==
    encoding_pc = "done" =>
        /\ encoding = raw_codec
        /\ file_content = Decode(raw_codec, file_bytes)

\* C18: the encoding that the probe of the initial chunk settles on decodes
\* the whole upload: file.read().decode(encoding) raises no decode error.
C18_ChosenEncodingDecodesWholeFile ==
    encoding_pc = "done" => file_content.ok

(***************************************************************************)
(* The cleaning stage.  utils/data_cleaner.py, apply_cleaning_operations.   *)
(* The content of a file is its text, one string for each line; a data      *)
(* frame is its column names and its rows of cells.  The cells of the       *)
(* model are integers, and NaN for a missing value.                         *)
(***************************************************************************)
NaN == -1000000

\* A field that is no number: pd.read_csv keeps it as a string and the column
\* becomes an object column.  The uploads of the model have one such field.
TextCell == -1000001
TextField == "x"

EmptyFrame == [columns |-> <<>>, rows |-> <<>>]

\* df.empty
IsEmpty(frame) == Len(frame.rows) = 0 \/ Len(frame.columns) = 0

InColumns(frame, name) == \E i \in 1..Len(frame.columns) : frame.columns[i] = name

ColumnIndex(frame, name) ==
    SetMin({i \in 1..Len(frame.columns) : frame.columns[i] = name})

\* df[name].to_numpy()
ColumnValues(frame, name) ==
    [r \in 1..Len(frame.rows) |-> frame.rows[r][ColumnIndex(frame, name)]]

RECURSIVE JoinComma(_, _)
JoinComma(fields, i) ==
    IF i > Len(fields) THEN ""
    ELSE IF i = Len(fields) THEN fields[i]
    ELSE fields[i] \o "," \o JoinComma(fields, i + 1)

\* df.to_csv(output, index=False): the header line, then a line for each row;
\* a missing value is written as the empty field.
FormatCell(v) == IF v = NaN THEN "" ELSE IF v = TextCell THEN TextField ELSE ToString(v)

ToCsv(frame) ==
    <<JoinComma(frame.columns, 1)>>
    \o [r \in 1..Len(frame.rows) |->
            JoinComma([c \in 1..Len(frame.rows[r]) |-> FormatCell(frame.rows[r][c])], 1)]

DigitValue(c) == CHOOSE d \in 0..9 : ToString(d) = c

RECURSIVE DigitsValue(_, _, _)
DigitsValue(s, i, acc) ==
    IF i > Len(s) THEN acc ELSE DigitsValue(s, i + 1, acc * 10 + DigitValue(CharAt(s, i)))

\* pd.read_csv on one field: the empty field is NaN, a field that is no
\* number stays text.  The numbers of the model's uploads are integers.
ParseCell(field) ==
    IF field = "" THEN NaN
    ELSE IF CharAt(field, 1) = "-"
    THEN IF IsDigitStr(SubSeq(field, 2, Len(field)))
         THEN 0 - DigitsValue(field, 2, 0) ELSE TextCell
    ELSE IF IsDigitStr(field) THEN DigitsValue(field, 1, 0) ELSE TextCell

ParseLine(line) ==
    LET fields == SplitComma(line)
    IN  [c \in 1..Len(fields) |-> ParseCell(fields[c])]

\* has_headers = not all(col.replace('-', '').replace('.', '').isdigit()
\*                       for col in first_line.split(',') if col.strip())
CleanerDetectHeaders(line) ==
    LET fields == SplitComma(Strip(line))
    IN  ~ \A k \in 1..Len(fields) :
            Strip(fields[k]) # "" => LooksNumericNoE(fields[k])

\* pd.read_csv(io.StringIO(file_content)), and with header=None the columns
\* col0, col1, ...
ReadCsv(content, headers) ==
    IF headers
    THEN [columns |-> SplitComma(content[1]),
          rows |-> [r \in 1..(Len(content) - 1) |-> ParseLine(content[r + 1])]]
    ELSE [columns |-> [c \in 1..Len(SplitComma(content[1])) |-> "col" \o ToString(c - 1)],
          rows |-> [r \in 1..Len(content) |-> ParseLine(content[r])]]

\* The operations with file_resequencing taken before the others and
\* header_management last.
Operations_ResequencingFirst ==
    << "file_size_filtering", "file_resequencing", "static_flight_detection",
       "trim_static_start", "remove_static_samples", "remove_quaternion_columns",
       "anomaly_detection", "header_management" >>

\* The operations, in the order apply_cleaning_operations takes them.
Operations ==
    << "file_size_filtering", "header_management", "static_flight_detection",
       "trim_static_start", "remove_static_samples", "remove_quaternion_columns",
       "anomaly_detection", "file_resequencing" >>

OperationNames == {Operations[k] : k \in 1..Len(Operations)}

\* The values of the configuration: the defaults of the code, and for the
\* window and the standard headers values that fit the tables of the model.
MinSizeMb == 10
DistanceThreshold == 10
WindowSize == 2
TwicePositionThreshold == 1
SpeedThreshold == 0
VelocityTarget == 1000
SpeedLimit == 100
standard_headers == <<"sec", "position_n", "position_e", "position_d">>
quaternion_columns == {"Quat_1", "Quat_2", "Quat_3", "Quat_4", "quat_valid"}
PositionColumns == {"position_n", "position_e", "position_d"}

\* result['operations_applied'] and result['cleaning_results'], with the data
\* frame the operations hand on; "" is no entry.
NoEntries == [op \in OperationNames |-> ""]

Applied(st, op, action) ==
    [st EXCEPT !.operations_applied = Append(@, op), !.cleaning_results[op] = action]

Noted(st, op, action) == [st EXCEPT !.cleaning_results[op] = action]

\* An exception inside the try block of apply_cleaning_operations: the frame
\* and the report are left as they were when it was raised.
Raise(st) == [st EXCEPT !.raised = TRUE]

\* A column of dtype object: one of its fields is text, so all of them are
\* strings.
IsObjectColumn(frame, name) ==
    \E r \in 1..Len(frame.rows) : frame.rows[r][ColumnIndex(frame, name)] = TextCell

\* 2.2 Header Management
HeaderManagement(st) ==
    LET current == st.df.columns
        std == standard_headers
        IsMissing(h) == ~InColumns(st.df, h)
        missing_headers == SelectSeq(std, IsMissing)
        extra_headers ==
            {i \in 1..Len(current) : \A k \in 1..Len(std) : std[k] # current[i]}
        renamed == [i \in 1..Len(current) |-> IF i <= Len(std) THEN std[i] ELSE current[i]]
        StillAbsent(h) == \A i \in 1..Len(renamed) : renamed[i] # h
        added == SelectSeq(missing_headers, StillAbsent)
    IN  IF Len(missing_headers) = 0 /\ extra_headers = {} THEN st
        ELSE [Applied(st, "header_management", "standardized") EXCEPT
                 !.df = [columns |-> renamed \o added,
                         rows |-> [r \in 1..Len(st.df.rows) |->
                                      st.df.rows[r] \o [k \in 1..Len(added) |-> NaN]]]]

\* total_distance < distance_threshold, with the strict sign turned loose.
IsStaticFlight_AtThreshold(total_distance, distance_threshold) ==
    total_distance <= distance_threshold

IsStaticFlight(total_distance, distance_threshold) ==
    total_distance < distance_threshold

\* 2.3 Static Flight Detection & Removal
StaticFlightDetection(st, info) ==
    IF ~info.has_metrics THEN st
    ELSE IF IsStaticFlight(info.total_distance, DistanceThreshold)
    THEN [Applied(st, "static_flight_detection", "removed") EXCEPT !.df = EmptyFrame]
    ELSE Noted(st, "static_flight_detection", "kept")

\* window[col].max() - window[col].min(): missing values are skipped, and a
\* window of missing values only has no extremes.
Spread(values) ==
    LET present == {values[k] : k \in 1..Len(values)} \ {NaN}
    IN  IF present = {} THEN NaN
        ELSE (CHOOSE x \in present : \A y \in present : x >= y) - SetMin(present)

\* Whether the window df.iloc[i:i+window_size] moves more than the position
\* threshold; a NaN change compares False.
WindowMoves(frame, i) ==
    LET last == Min(i + WindowSize, Len(frame.rows))
        Window(name) == SubSeq(ColumnValues(frame, name), i + 1, last)
        cn == Spread(Window("position_n"))
        ce == Spread(Window("position_e"))
        cd == Spread(Window("position_d"))
    IN  /\ cn # NaN /\ ce # NaN /\ cd # NaN
        /\ 4 * (cn * cn + ce * ce + cd * cd) > TwicePositionThreshold * TwicePositionThreshold

\* 2.4 Trim Static Start, for a table of 5000 rows or fewer.  The first
\* window of an object column raises TypeError: max() - min() subtracts two
\* strings.
TrimStaticStart(st) ==
    IF ~ \A name \in PositionColumns : InColumns(st.df, name) THEN st
    ELSE IF /\ Len(st.df.rows) - WindowSize > 0
            /\ \E name \in PositionColumns : IsObjectColumn(st.df, name)
    THEN Raise(st)
    ELSE LET len == Len(st.df.rows)
             moving == {i \in 0..(len - WindowSize - 1) : WindowMoves(st.df, i)}
             start_index == IF moving = {} THEN 0 ELSE SetMin(moving)
         IN  IF start_index > 0
             THEN [Applied(st, "trim_static_start", "trimmed") EXCEPT
                      !.df.rows = SubSeq(st.df.rows, start_index + 1, len)]
             ELSE st

\* distance / (idx - prev_idx) for the rows prev_idx and idx (counted from
\* 0), kept as the squared distance and the number of rows between them; NaN
\* when a coordinate is missing; 0.0 when float() of a coordinate raises
\* ValueError, which the loop catches.
SegmentVelocity(frame, prev_idx, idx) ==
    LET pn == ColumnValues(frame, "position_n")
        pe == ColumnValues(frame, "position_e")
        pd == ColumnValues(frame, "position_d")
        dn == pn[idx + 1] - pn[prev_idx + 1]
        de == pe[idx + 1] - pe[prev_idx + 1]
        dd == pd[idx + 1] - pd[prev_idx + 1]
        ends == {pn[idx + 1], pn[prev_idx + 1], pe[idx + 1], pe[prev_idx + 1],
                 pd[idx + 1], pd[prev_idx + 1]}
    IN  IF TextCell \in ends THEN [nan |-> FALSE, d2 |-> 0, dt |-> 1]
        ELSE IF NaN \in ends THEN [nan |-> TRUE, d2 |-> 0, dt |-> 1]
        ELSE [nan |-> FALSE, d2 |-> dn * dn + de * de + dd * dd, dt |-> idx - prev_idx]

ZeroVelocity == [nan |-> FALSE, d2 |-> 0, dt |-> 1]

\* indices_to_process: range(0, len(df), sample_rate), and the last row.
IndicesToProcess(len, rate) ==
    LET n == RangeLen(len, rate)
        stepped == [k \in 1..n |-> (k - 1) * rate]
    IN  IF stepped[n] # len - 1 THEN Append(stepped, len - 1) ELSE stepped

\* The loop over the segments: df.loc[prev_idx:idx, 'calculated_velocity'] =
\* segment_velocity writes both ends of the segment, so each segment
\* overwrites the last row of the one before.
RECURSIVE AssignSegments(_, _, _, _)
AssignSegments(frame, velocity, indices, i) ==
    IF i > Len(indices) THEN velocity
    ELSE LET prev_idx == indices[i - 1]
             idx == indices[i]
             v == SegmentVelocity(frame, prev_idx, idx)
         IN  AssignSegments(frame,
                 [r \in 1..Len(velocity) |->
                     IF prev_idx <= r - 1 /\ r - 1 <= idx THEN v ELSE velocity[r]],
                 indices, i + 1)

\* velocity > speed_threshold; a NaN velocity compares False.
IsFaster(v) ==
    ~v.nan /\ v.d2 > (SpeedThreshold * v.dt) * (SpeedThreshold * v.dt)

VelocityCell(v) == IF v.nan THEN NaN ELSE ISqrt(v.d2) \div v.dt

\* df['calculated_velocity'] = ...: the column is added at the end, or
\* overwritten where it is.
WithColumn(frame, name, cells) ==
    IF InColumns(frame, name)
    THEN [frame EXCEPT !.rows =
             [r \in 1..Len(frame.rows) |->
                 [frame.rows[r] EXCEPT ![ColumnIndex(frame, name)] = cells[r]]]]
    ELSE [columns |-> Append(frame.columns, name),
          rows |-> [r \in 1..Len(frame.rows) |-> Append(frame.rows[r], cells[r])]]

\* df[mask].reset_index(drop=True)
RECURSIVE KeepRowsFrom(_, _, _)
KeepRowsFrom(rows, mask, r) ==
    IF r > Len(rows) THEN <<>>
    ELSE (IF mask[r] THEN <<rows[r]>> ELSE <<>>) \o KeepRowsFrom(rows, mask, r + 1)

KeepRows(frame, mask) == [frame EXCEPT !.rows = KeepRowsFrom(frame.rows, mask, 1)]

\* 2.5 Remove Static Samples.  df['velocity'] > speed_threshold raises
\* TypeError on an object column.
RemoveStaticSamples(st) ==
    IF InColumns(st.df, "velocity") /\ IsObjectColumn(st.df, "velocity") THEN Raise(st)
    ELSE IF InColumns(st.df, "velocity")
    THEN LET v == ColumnValues(st.df, "velocity")
             mask == [r \in 1..Len(v) |-> v[r] # NaN /\ v[r] > SpeedThreshold]
         IN  [Applied(st, "remove_static_samples", "filtered") EXCEPT
                 !.df = KeepRows(st.df, mask)]
    ELSE IF \A name \in PositionColumns : InColumns(st.df, name)
    THEN LET len == Len(st.df.rows)
             stride == Max(1, len \div VelocityTarget)
             indices_to_process == IndicesToProcess(len, stride)
             velocity == AssignSegments(st.df, [r \in 1..len |-> ZeroVelocity],
                                        indices_to_process, 2)
             withVelocity == WithColumn(st.df, "calculated_velocity",
                                        [r \in 1..len |-> VelocityCell(velocity[r])])
             mask == [r \in 1..len |-> IsFaster(velocity[r])]
         IN  [Applied(st, "remove_static_samples", "filtered") EXCEPT
                 !.df = KeepRows(withVelocity, mask)]
    ELSE st

\* 2.6 Remove Quaternion Columns
RemoveQuaternionColumns(st) ==
    LET kept == {i \in 1..Len(st.df.columns) : st.df.columns[i] \notin quaternion_columns}
        Pick(row) == [k \in 1..Cardinality(kept) |-> row[NthOf(kept, k)]]
    IN  IF Cardinality(kept) = Len(st.df.columns) THEN st
        ELSE [Applied(st, "remove_quaternion_columns", "dropped") EXCEPT
                 !.df = [columns |-> Pick(st.df.columns),
                         rows |-> [r \in 1..Len(st.df.rows) |-> Pick(st.df.rows[r])]]]

\* 2.7 Anomaly Detection & Removal, with flag_only at its default.
AnomalyDetection(st, info) ==
    IF info.has_metrics /\ info.avg_speed > SpeedLimit
    THEN Applied(st, "anomaly_detection", "flagged")
    ELSE st

\* 2.8 File Resequencing
FileResequencing(st) == Applied(st, "file_resequencing", "noted")

\* What apply_cleaning_operations returns.
NoCleaning ==
    [error |-> "none", operations_applied |-> <<>>, cleaning_results |-> NoEntries,
     has_cleaned_stats |-> FALSE, row_count |-> 0, has_cleaned_content |-> FALSE,
     cleaned_content |-> <<>>]

\* Calculate final statistics; prepare output as CSV string.  After an
\* exception the except block sets result['error'] and returns the result as
\* far as it was filled.
Finish(st) ==
    IF st.raised
    THEN [NoCleaning EXCEPT !.error = "Error applying cleaning operations",
                            !.operations_applied = st.operations_applied,
                            !.cleaning_results = st.cleaning_results]
    ELSE IF ~IsEmpty(st.df)
    THEN [NoCleaning EXCEPT !.operations_applied = st.operations_applied,
                            !.cleaning_results = st.cleaning_results,
                            !.has_cleaned_stats = TRUE,
                            !.row_count = Len(st.df.rows),
                            !.has_cleaned_content = TRUE,
                            !.cleaned_content = ToCsv(st.df)]
    ELSE [NoCleaning EXCEPT !.operations_applied = st.operations_applied,
                            !.cleaning_results = st.cleaning_results,
                            !.has_cleaned_stats = TRUE]

\* One operation of the sequence, on what the operations before it left.
RunOperation(op, st, info) ==
    CASE op = "header_management" -> HeaderManagement(st)
      [] op = "static_flight_detection" -> StaticFlightDetection(st, info)
      [] op = "trim_static_start" -> IF IsEmpty(st.df) THEN st ELSE TrimStaticStart(st)
      [] op = "remove_static_samples" ->
            IF IsEmpty(st.df) THEN st ELSE RemoveStaticSamples(st)
      [] op = "remove_quaternion_columns" ->
            IF IsEmpty(st.df) THEN st ELSE RemoveQuaternionColumns(st)
      [] op = "anomaly_detection" -> IF IsEmpty(st.df) THEN st ELSE AnomalyDetection(st, info)
      [] op = "file_resequencing" -> FileResequencing(st)

\* The operations 2.2 to 2.8 in their order, each on the output of the one
\* before, the enabled ones only.
RECURSIVE RunOperations(_, _, _, _)
RunOperations(st, info, cfg, k) ==
    IF k > Len(Operations) \/ st.raised THEN st
    ELSE IF Operations[k] \notin cfg THEN RunOperations(st, info, cfg, k + 1)
    ELSE TheOne({RunOperations(next, info, cfg, k + 1) :
                    next \in {RunOperation(Operations[k], st, info)}})

\* The table as it is read, and the empty report.
ReadFrame(info) ==
    [df |-> ReadCsv(info.content, CleanerDetectHeaders(info.content[1])),
     operations_applied |-> <<>>,
     cleaning_results |-> NoEntries,
     raised |-> FALSE]

\* 2.1 with the early return left out: the skip is recorded and the later
\* operations are applied all the same.
SkipSmallFile_GoesOn(info, cfg) ==
    TheOne({Finish(RunOperations(s0, info, cfg, 2)) :
               s0 \in {[ReadFrame(info) EXCEPT
                           !.operations_applied = <<"file_size_filtering">>,
                           !.cleaning_results["file_size_filtering"] = "skipped"]}})

\* 2.1 File Size Filtering, for a file below min_size_mb: the skip is
\* recorded and the result is returned as it is.
SkipSmallFile(info, cfg) ==
    [NoCleaning EXCEPT
        !.operations_applied = <<"file_size_filtering">>,
        !.cleaning_results["file_size_filtering"] = "skipped"]

ApplyCleaningOperations(info, cfg) ==
    IF Len(info.content) = 0
    THEN [NoCleaning EXCEPT !.error = "File content not available"]
    ELSE IF "file_size_filtering" \in cfg /\ info.file_size_mb < MinSizeMb
    THEN SkipSmallFile(info, cfg)
    ELSE TheOne({Finish(RunOperations(s0, info, cfg, 2)) : s0 \in {ReadFrame(info)}})

\* The keys of the result dictionary.
CleaningResultKeys(res) ==
    {"filename", "original_stats", "operations_applied", "cleaning_results"}
    \cup (IF res.error # "none" THEN {"error"} ELSE {})
    \cup (IF res.has_cleaned_stats THEN {"cleaned_stats"} ELSE {})
    \cup (IF res.has_cleaned_content THEN {"cleaned_preview", "cleaned_content"} ELSE {})

\* Bounds of the cleaning stage.
MaxRows == 4
MaxEnabled == 2
TextRow == 3

\* The files of the model: a header line or none, rows that stay at the
\* origin or sit 5 north of it, a velocity of 0 or 1, a quaternion field, and
\* at most one row with a field that is no number.
HeaderLines ==
    { "position_n,position_e,position_d", "position_n,position_e,position_d,velocity",
      "position_n,position_e,position_d,Quat_1" }

DataLines(content) ==
    IF Len(content) = 0 \/ ~CleanerDetectHeaders(content[1])
    THEN Len(content) ELSE Len(content) - 1

RowLines(content) ==
    IF Len(content) = 0 \/ ~CleanerDetectHeaders(content[1]) THEN {"0,0,0", "5,0,0"}
    ELSE IF content[1] = "position_n,position_e,position_d,velocity"
    THEN {"0,0,0,0", "5,0,0,1"}
         \cup (IF DataLines(content) = TextRow - 1 THEN {"5,0,0,x"} ELSE {})
    ELSE IF content[1] = "position_n,position_e,position_d,Quat_1"
    THEN {"0,0,0,1", "5,0,0,1"}
    ELSE {"0,0,0", "5,0,0"}
         \cup (IF DataLines(content) = TextRow - 1 THEN {"x,0,0"} ELSE {})

\* The analysis of the file: its size, and the trajectory metrics or none.
FileInfos ==
    { [content |-> c, file_size_mb |-> size, has_metrics |-> m[1],
       total_distance |-> m[2], avg_speed |-> m[3]] :
        c \in {<<>>} \cup {<<h>> : h \in HeaderLines},
        size \in {5, 10},
        m \in {<<FALSE, 0, 0>>, <<TRUE, 5, 50>>, <<TRUE, 10, 150>>} }

InitClean ==
    /\ file_info \in FileInfos
    /\ config = {}
    /\ cleaned = NoCleaning
    /\ recleaned = NoCleaning
    /\ clean_pc = "input"

RestClean ==
    /\ file_info = [content |-> <<>>, file_size_mb |-> 0, has_metrics |-> FALSE,
                    total_distance |-> 0, avg_speed |-> 0]
    /\ config = {}
    /\ cleaned = NoCleaning
    /\ recleaned = NoCleaning
    /\ clean_pc = "rest"

\* The uploaded file: one more row.
AddRow ==
    /\ clean_pc = "input"
    /\ DataLines(file_info.content) < MaxRows
    /\ \E line \in RowLines(file_info.content) :
          file_info' = [file_info EXCEPT !.content = Append(@, line)]
    /\ UNCHANGED <<config, cleaned, recleaned, clean_pc, others_clean>>

\* The request's configuration: one more operation enabled.
EnableOperation ==
    /\ clean_pc = "input"
    /\ Cardinality(config) < MaxEnabled
    /\ \E op \in OperationNames \ config : config' = config \cup {op}
    /\ UNCHANGED <<file_info, cleaned, recleaned, clean_pc, others_clean>>

\* clean_data: apply_cleaning_operations(file_info, config)
CleanFile ==
    /\ clean_pc = "input"
    /\ cleaned' = ApplyCleaningOperations(file_info, config)
    /\ clean_pc' = "cleaned"
    /\ UNCHANGED <<file_info, config, recleaned, others_clean>>

\* The same request on the cleaned output: the file's content is now
\* cleaned_content, the configuration is the same.
CleanAgain ==
    /\ clean_pc = "cleaned"
    /\ cleaned.has_cleaned_content
    /\ recleaned' = ApplyCleaningOperations(
                        [file_info EXCEPT !.content = cleaned.cleaned_content], config)
    /\ clean_pc' = "recleaned"
    /\ UNCHANGED <<file_info, config, cleaned, others_clean>>

NextClean == AddRow \/ EnableOperation \/ CleanFile \/ CleanAgain

(***************************************************************************)
(* The cleaning stage: the claims.                                         *)
(***************************************************************************)
HasBeenCleaned == clean_pc \in {"cleaned", "recleaned"}

\* static_flight_detection is enabled on a file that has content, and the
\* file's metrics carry a total distance.
StaticFlightAsked ==
    /\ HasBeenCleaned
    /\ "static_flight_detection" \in config
    /\ Len(file_info.content) > 0
    /\ file_info.has_metrics

\* What C8 says of the result: below the threshold the cleaned table is empty
\* and the report says 'removed'; at or above it the report says 'kept' and
\* the table is what the other enabled operations alone make of the file.
StaticFlightOutcome ==
    IF file_info.total_distance < DistanceThreshold
    THEN /\ cleaned.cleaning_results["static_flight_detection"] = "removed"
         /\ cleaned.has_cleaned_stats
         /\ cleaned.row_count = 0
         /\ ~cleaned.has_cleaned_content
    ELSE /\ cleaned.cleaning_results["static_flight_detection"] = "kept"
         /\ LET without == ApplyCleaningOperations(
                               file_info, config \ {"static_flight_detection"})
            IN  /\ cleaned.row_count = without.row_count
                /\ cleaned.cleaned_content = without.cleaned_content

\* C8 as stated: whenever static_flight_detection is enabled, the total
\* distance decides between 'removed' with an empty table and 'kept' with
\* the table untouched.
C8_StaticFlightDecides == StaticFlightAsked => StaticFlightOutcome

\* C8, amended: the same, for a file which file_size_filtering does not skip.
C8_StaticFlightDecidesWhenReached ==
    ( /\ StaticFlightAsked
      /\ ~("file_size_filtering" \in config /\ file_info.file_size_mb < MinSizeMb) )
    => StaticFlightOutcome

\* C8 witness: a file of two rows or more, flown 5 in all, is removed.
C8_Witness ==
    /\ StaticFlightAsked
    /\ Len(file_info.content) >= 3
    /\ file_info.total_distance = 5
    /\ cleaned.operations_applied = <<"static_flight_detection">>
    /\ cleaned.cleaning_results["static_flight_detection"] = "removed"
    /\ cleaned.row_count = 0

\* C9 as stated: cleaning the cleaned output again, with the same
\* configuration, returns the same rows and the same columns.
C9_CleaningIsIdempotent ==
    clean_pc = "recleaned" =>
        /\ recleaned.error = "none"
        /\ recleaned.row_count = cleaned.row_count
        /\ recleaned.cleaned_content = cleaned.cleaned_content

\* C12: apply_cleaning_operations never raises, and a result that reports a
\* failure carries both an error field and a message field.
C12_FailureCarriesErrorAndMessage ==
    HasBeenCleaned /\ cleaned.error # "none"
        => {"error", "message"} \subseteq CleaningResultKeys(cleaned)

\* An operation of the configuration has raised: the text column of the
\* upload reaches trim_static_start or remove_static_samples.
OperationFailed(res) == res.error = "Error applying cleaning operations"

\* C13: when an enabled operation fails on its input, the operations after
\* it still run and the call still returns cleaned statistics.
C13_FailedOperationIsIsolated ==
    HasBeenCleaned /\ OperationFailed(cleaned)
        => /\ cleaned.has_cleaned_stats
           /\ ("file_resequencing" \in config
                  => cleaned.cleaning_results["file_resequencing"] # "")

\* file_size_filtering is enabled for a file below min_size_mb, and the
\* file's content is there.
SmallFileAsked ==
    /\ HasBeenCleaned
    /\ Len(file_info.content) > 0
    /\ "file_size_filtering" \in config
    /\ file_info.file_size_mb < MinSizeMb

\* C14: for a file below min_size_mb with file_size_filtering enabled, the
\* report holds file_size_filtering alone, with the action skipped, and no
\* later operation or statistic, whatever else is enabled.
C14_SmallFileIsSkippedAtOnce ==
    SmallFileAsked
        => /\ cleaned.operations_applied = <<"file_size_filtering">>
           /\ cleaned.cleaning_results =
                  [NoEntries EXCEPT !["file_size_filtering"] = "skipped"]
           /\ cleaned.error = "none"
           /\ ~cleaned.has_cleaned_stats
           /\ ~cleaned.has_cleaned_content

C14_Witness ==
    /\ SmallFileAsked
    /\ config = {"file_size_filtering", "file_resequencing"}
    /\ Len(file_info.content) = 3
    /\ cleaned.cleaning_results["file_size_filtering"] = "skipped"

\* The fixed order of the operations.
FixedOrder ==
    << "file_size_filtering", "header_management", "static_flight_detection",
       "trim_static_start", "remove_static_samples", "remove_quaternion_columns",
       "anomaly_detection", "file_resequencing" >>

PlaceOf(op) == CHOOSE k \in 1..Len(FixedOrder) : FixedOrder[k] = op

\* The enabled operations after file_size_filtering, in the fixed order.
EnabledInOrder(cfg) ==
    LET IsEnabled(op) == op \in cfg /\ op # "file_size_filtering"
    IN  SelectSeq(FixedOrder, IsEnabled)

\* Each enabled operation on the table the enabled operation before it left,
\* up to the first that raises.
RECURSIVE Pipeline(_, _, _, _)
Pipeline(ops, st, info, k) ==
    IF k > Len(ops) \/ st.raised THEN st
    ELSE TheOne({Pipeline(ops, next, info, k + 1) :
                    next \in {RunOperation(ops[k], st, info)}})

\* C15: operations_applied is a duplicate-free subsequence of the fixed
\* order, holds enabled operations only, and the result is that of the
\* enabled operations applied one after the other, each on the table the one
\* before it produced.
C15_OperationsInFixedOrder ==
    HasBeenCleaned
        => /\ \A i \in 1..Len(cleaned.operations_applied) :
                  /\ cleaned.operations_applied[i] \in config
                  /\ \A j \in (i + 1)..Len(cleaned.operations_applied) :
                        PlaceOf(cleaned.operations_applied[i])
                            < PlaceOf(cleaned.operations_applied[j])
           /\ (Len(file_info.content) > 0 /\ ~SmallFileAsked
                  => cleaned = Finish(Pipeline(EnabledInOrder(config),
                                               ReadFrame(file_info), file_info, 1)))

C15_Witness ==
    /\ HasBeenCleaned
    /\ config = {"trim_static_start", "remove_static_samples"}
    /\ cleaned.operations_applied = <<"trim_static_start", "remove_static_samples">>
    /\ cleaned.row_count > 0

\* C28: on the same first line process_csv_data makes the header decision
\* that analyze_csv_file and apply_cleaning_operations make.
C28_SameHeaderDecision ==
    header_pc = "done" => has_headers = CleanerDetectHeaders(first_line)

\* The columns of the cleaned table, from the header line of cleaned_content.
CleanedColumns == SplitComma(cleaned.cleaned_content[1])

\* The columns of the table as apply_cleaning_operations reads it.
OriginalColumns == ReadFrame(file_info).df.columns

\* header_management alone has run on the file and renamed its headers.
HeadersStandardized ==
    /\ HasBeenCleaned
    /\ config = {"header_management"}
    /\ cleaned.operations_applied = <<"header_management">>
    /\ cleaned.has_cleaned_content

\* C24: after header_management has run on a table whose headers differ from
\* the standard list, the i-th column carries the i-th standard header and
\* every standard header names exactly one column of the table.
C24_HeadersAreStandardized ==
    HeadersStandardized
        => /\ \A i \in 1..Min(Len(OriginalColumns), Len(standard_headers)) :
                  CleanedColumns[i] = standard_headers[i]
           /\ \A k \in 1..Len(standard_headers) :
                  Cardinality({i \in 1..Len(CleanedColumns) :
                                  CleanedColumns[i] = standard_headers[k]}) = 1
           /\ \A i, j \in 1..Len(CleanedColumns) :
                  CleanedColumns[i] = CleanedColumns[j] => i = j

\* C27: the operations named in operations_applied are exactly the
\* operations that have an entry in cleaning_results.
C27_AppliedAreTheReported ==
    HasBeenCleaned
        => {cleaned.operations_applied[i] : i \in 1..Len(cleaned.operations_applied)}
              = {op \in OperationNames : cleaned.cleaning_results[op] # ""}

\* C30: remove_static_samples removes rows only: with no other operation
\* enabled the cleaned table has the columns the table had as it was read.
C30_StaticSamplesKeepColumns ==
    ( /\ HasBeenCleaned
      /\ config = {"remove_static_samples"}
      /\ cleaned.operations_applied = <<"remove_static_samples">>
      /\ cleaned.has_cleaned_content )
    => CleanedColumns = OriginalColumns

(***************************************************************************)
(* The session stage: analyze_csv stores its results in the session, and   *)
(* clean_data cleans the files of the session.                             *)
(***************************************************************************)
MB == 1024 * 1024

\* Bounds of the session stage.
MaxFiles == 2

\* The uploads of the model: a name, a size in bytes on either side of the
\* limits of 5 MB, 50 MB and 500 MB, and the text of the file, empty or a
\* header line with two rows.
FileNames == {"a.csv", "b.txt", "c.md"}
FileSizes == {1 * MB, 20 * MB, 50 * MB, 60 * MB, 600 * MB}
FileTexts == {<<>>, <<"position_n,position_e,position_d", "0,0,0", "5,0,0">>}
RequestOverhead == 200

Uploads == [filename : FileNames, size : FileSizes, content : FileTexts]

\* file.filename.endswith(('.csv', '.txt'))
EndsWith(str, suffix) ==
    Len(str) >= Len(suffix) /\ SubSeq(str, Len(str) - Len(suffix) + 1, Len(str)) = suffix

IsSupported(filename) == EndsWith(filename, ".csv") \/ EndsWith(filename, ".txt")

\* unique_id = str(uuid.uuid4()): a fresh identifier for each file, never a
\* file name.
UniqueId(k) == "uuid-" \o ToString(k)

RECURSIVE TotalSize(_, _)
TotalSize(uploads, k) ==
    IF k > Len(uploads) THEN 0 ELSE uploads[k].size + TotalSize(uploads, k + 1)

\* estimated_size: the Content-Length of the whole request if it has one,
\* the size of the stream otherwise.
EstimatedSize(uploads, k, with_length) ==
    IF with_length THEN TotalSize(uploads, 1) + RequestOverhead ELSE uploads[k].size

\* sample_size, by the size of the file.
SampleSize(estimated_size) ==
    IF estimated_size > 500 * MB THEN 512 * 1024
    ELSE IF estimated_size > 50 * MB THEN 1 * MB
    ELSE 5 * MB

\* file_stats["is_sample_analysis"], set in the same three branches.
IsSampleAnalysis(estimated_size) == estimated_size > 50 * MB

\* The entry of analysis_results for one file.  analyze_csv_file fails on an
\* empty text (pd.read_csv raises EmptyDataError) and returns an error entry,
\* which file_stats.update(stats) copies into file_stats.
FileStats(uploads, k, with_length) ==
    LET file == uploads[k]
        estimated_size == EstimatedSize(uploads, k, with_length)
        sample_bytes == Min(file.size, SampleSize(estimated_size))
    IN  IF ~IsSupported(file.filename)
        THEN [filename |-> file.filename, error |-> "File type not supported",
              is_sample_analysis |-> FALSE, is_large_file |-> FALSE,
              estimated_size |-> 0, file_size_bytes |-> 0, row_count |-> 0,
              has_content |-> FALSE]
        ELSE [filename |-> file.filename,
              error |-> IF Len(file.content) = 0 THEN "No columns to parse from file"
                        ELSE "none",
              is_sample_analysis |-> IsSampleAnalysis(estimated_size),
              is_large_file |-> estimated_size > 50 * MB,
              estimated_size |-> estimated_size,
              file_size_bytes |-> IF Len(file.content) = 0 THEN 0 ELSE sample_bytes,
              row_count |-> IF Len(file.content) = 0 THEN 0 ELSE Len(file.content) - 1,
              has_content |-> FALSE]

\* The files that get an entry in temp_files: the supported ones, in order.
SupportedIndices(uploads) == {k \in 1..Len(uploads) : IsSupported(uploads[k].filename)}

\* temp_files: the metadata of each supported file under its unique_id.
TempFiles(uploads, with_length) ==
    LET kept == SupportedIndices(uploads)
    IN  [id \in {UniqueId(n) : n \in 1..Cardinality(kept)} |->
            LET k == CHOOSE m \in kept : UniqueId(Cardinality({q \in kept : q <= m})) = id
            IN  [name |-> uploads[k].filename,
                 is_large_file |-> EstimatedSize(uploads, k, with_length) > 50 * MB,
                 estimated_size |-> EstimatedSize(uploads, k, with_length)]]

NoSession == [present |-> FALSE, analysis_results |-> <<>>, temp_files |-> <<>>]

\* The JSON body of the clean_data request and the answer to it.
NoResponse == [config |-> {}, status |-> 0, error |-> "none", results |-> <<>>]

\* The file_info that clean_data hands to apply_cleaning_operations when it
\* finds no temporary file: the entry of analysis_results, with
\* file_info['content'] = '' where the entry has no content.
FallbackFileInfo(file_stats) ==
    [content |-> <<>>, file_size_mb |-> file_stats.file_size_bytes \div MB,
     has_metrics |-> FALSE, total_distance |-> 0, avg_speed |-> 0]

\* The entry of cleaning_results for one file of the session: an entry with
\* an error is passed through, the others are cleaned.
CleanedEntry(file_stats, cfg) ==
    IF file_stats.error # "none"
    THEN [passed_through |-> TRUE, filename |-> file_stats.filename,
          cleaned_data |-> [NoCleaning EXCEPT !.error = file_stats.error]]
    ELSE [passed_through |-> FALSE, filename |-> file_stats.filename,
          cleaned_data |-> ApplyCleaningOperations(FallbackFileInfo(file_stats), cfg)]

\* clean_data, as a function of the session and the JSON body.
CleanData(sess, cfg) ==
    IF ~sess.present
    THEN [NoResponse EXCEPT !.status = 400, !.error = "No analysis results found"]
    ELSE IF cfg = {}
    THEN [NoResponse EXCEPT !.status = 400, !.error = "No cleaning configuration provided"]
    ELSE IF \E k \in 1..Len(sess.analysis_results) :
               /\ sess.analysis_results[k].error = "none"
               /\ sess.analysis_results[k].filename \in DOMAIN sess.temp_files
    THEN [NoResponse EXCEPT !.status = 500, !.error = "Error during data cleaning"]
    ELSE [NoResponse EXCEPT
             !.status = 200,
             !.results = [k \in 1..Len(sess.analysis_results) |->
                             CleanedEntry(sess.analysis_results[k], cfg)]]

\* The configurations of the clean_data requests of the model.
SessionConfigs ==
    { {}, {"header_management"}, {"file_resequencing"},
      {"file_size_filtering", "remove_static_samples"} }

InitSession ==
    /\ files = <<>>
    /\ content_length \in BOOLEAN
    /\ session = NoSession
    /\ clean_response = NoResponse
    /\ session_pc = "input"

RestSession ==
    /\ files = <<>>
    /\ content_length = FALSE
    /\ session = NoSession
    /\ clean_response = NoResponse
    /\ session_pc = "rest"

\* The form of the analyze_csv request: one more file.
AddFile ==
    /\ session_pc = "input"
    /\ Len(files) < MaxFiles
    /\ \E file \in Uploads : files' = Append(files, file)
    /\ UNCHANGED <<content_length, session, clean_response, session_pc, others_session>>

\* POST /analyze_csv with at least one file.
AnalyzeCsv ==
    /\ session_pc = "input"
    /\ Len(files) > 0
    /\ session' = [present |-> TRUE,
                   analysis_results |->
                       [k \in 1..Len(files) |-> FileStats(files, k, content_length)],
                   temp_files |-> TempFiles(files, content_length)]
    /\ session_pc' = "analysed"
    /\ UNCHANGED <<files, content_length, clean_response, others_session>>

\* POST /clean_data, after an analysis or with no session at all.
PostCleanData ==
    /\ session_pc \in {"input", "analysed"}
    /\ \E cfg \in SessionConfigs :
          clean_response' = [CleanData(session, cfg) EXCEPT !.config = cfg]
    /\ session_pc' = "cleaned"
    /\ UNCHANGED <<files, content_length, session, others_session>>

NextSession == AddFile \/ AnalyzeCsv \/ PostCleanData

(***************************************************************************)
(* The session stage: the claims.                                          *)
(***************************************************************************)
\* clean_data has answered a request with a non-empty config in a session
\* that analyze_csv has filled.
CleanedAfterAnalysis ==
    session_pc = "cleaned" /\ session.present /\ clean_response.config # {}

\* C16: after analyze_csv has analysed a file without error, clean_data with
\* a non-empty config returns for that file the result of the configured
\* operations on the file's content, and not the error 'File content not
\* available'.
C16_CleanDataCleansAnalysedFile ==
    CleanedAfterAnalysis
        => \A k \in 1..Len(session.analysis_results) :
              session.analysis_results[k].error = "none"
                  => /\ clean_response.status = 200
                     /\ clean_response.results[k].cleaned_data.error
                            # "File content not available"
                     /\ clean_response.results[k].cleaned_data =
                            ApplyCleaningOperations(
                                [FallbackFileInfo(session.analysis_results[k])
                                    EXCEPT !.content = files[k].content],
                                clean_response.config)

\* C17: an entry of analysis_results whose statistics come from fewer bytes
\* than the file has carries is_sample_analysis = true.
C17_PrefixIsLabelledSample ==
    session.present
        => \A k \in 1..Len(session.analysis_results) :
              /\ session.analysis_results[k].error = "none"
              /\ session.analysis_results[k].file_size_bytes < files[k].size
              => session.analysis_results[k].is_sample_analysis

(***************************************************************************)
(* The trim stage: the scan of trim_static_start, on tables on either side *)
(* of the 5000 rows where the sampled scan takes over.                     *)
(***************************************************************************)
\* Bounds of the trim stage: the rows the flight may stay still.
MaxStill == 30

\* len(df) > 5000, and the 200 windows of the sampled scan.
LargeTable == 5000
WindowTarget == 200

\* The tables of the model: position_e and position_d are 0, position_n is
\* 0 for the first still rows and then either jumps to 5 and stays, or
\* climbs by 5 a row.
FlightRows == {20, 5000, 5001, 6000}
FlightKinds == {"step", "ramp"}

\* df['position_n'].iloc[r], rows counted from 0.
PositionN(table, r) ==
    IF r < table.still THEN 0
    ELSE IF table.kind = "step" THEN 5
    ELSE 5 * (r - table.still + 1)

\* max_change > position_threshold for the window df.iloc[i:i+window_size].
FlightWindowMoves(table, i) ==
    LET window == {PositionN(table, r) : r \in i..(Min(i + WindowSize, table.rows) - 1)}
        max_change_n == (CHOOSE x \in window : \A y \in window : x >= y) - SetMin(window)
    IN  4 * (max_change_n * max_change_n)
            > TwicePositionThreshold * TwicePositionThreshold

\* for i in range(len(df) - window_size): the first window that moves, 0 if
\* none does.
ExhaustiveScan(table) ==
    LET moving == {i \in 0..(table.rows - WindowSize - 1) : FlightWindowMoves(table, i)}
    IN  IF moving = {} THEN 0 ELSE SetMin(moving)

\* for i in range(0, len(df) - window_size, sample_rate): the first sampled
\* window that moves, then for j in range(i, min(i + sample_rate, len(df) -
\* window_size)) the first window that moves.
SampledScan(table) ==
    LET stride == Max(1, table.rows \div WindowTarget)
        sampled == {i \in 0..(table.rows - WindowSize - 1) :
                       i % stride = 0 /\ FlightWindowMoves(table, i)}
    IN  IF sampled = {} THEN 0
        ELSE TheOne({ IF {j \in i..(Min(i + stride, table.rows - WindowSize) - 1) :
                               FlightWindowMoves(table, j)} = {}
                      THEN 0
                      ELSE SetMin({j \in i..(Min(i + stride, table.rows - WindowSize) - 1) :
                                      FlightWindowMoves(table, j)}) :
                      i \in {SetMin(sampled)} })

\* start_index of 2.4 Trim Static Start.
TrimStartIndex(table) ==
    IF table.rows > LargeTable THEN SampledScan(table) ELSE ExhaustiveScan(table)

InitTrim ==
    /\ flight \in [rows : FlightRows, kind : FlightKinds, still : {0}]
    /\ trim_start = 0
    /\ trim_pc = "input"

RestTrim ==
    /\ flight = [rows |-> 0, kind |-> "step", still |-> 0]
    /\ trim_start = 0
    /\ trim_pc = "rest"

\* The flight: one more row before it moves.
HoldStill ==
    /\ trim_pc = "input"
    /\ flight.still < MaxStill
    /\ flight.still < flight.rows
    /\ flight' = [flight EXCEPT !.still = @ + 1]
    /\ UNCHANGED <<trim_start, trim_pc, others_trim>>

\* trim_static_start on the table.
ScanStaticStart ==
    /\ trim_pc = "input"
    /\ trim_start' = TrimStartIndex(flight)
    /\ trim_pc' = "done"
    /\ UNCHANGED <<flight, others_trim>>

NextTrim == HoldStill \/ ScanStaticStart

(***************************************************************************)
(* The trim stage: the claims.                                             *)
(***************************************************************************)
\* The start of the first window of window_size consecutive rows that moves,
\* 0 if no window does.
FirstMovingWindow(table) ==
    LET moving == {i \in 0..(table.rows - WindowSize) : FlightWindowMoves(table, i)}
    IN  IF moving = {} THEN 0 ELSE SetMin(moving)

\* C25: trim_static_start starts the table at the first window of
\* window_size rows that moves, and on a table of more than 5000 rows the
\* sampled scan settles on the start index of the row-by-row scan.
C25_TrimStartsAtFirstMovingWindow ==
    trim_pc = "done"
        => /\ trim_start = FirstMovingWindow(flight)
           /\ trim_start = ExhaustiveScan(flight)

(***************************************************************************)
(* The points stage: the loop of process_csv_data that emits the points,   *)
(* with their time and the fields of the other columns.                    *)
(***************************************************************************)
\* Bounds of the points stage.
MaxPoints == 3
MaxPointsRate == 2

\* The tables of the model: the position columns, and by choice the columns
\* sec and nanosec, the angle phi and a column note; a cell of phi or note
\* is a number or text.  The flight moves 3 north a row.
Stamps == {<<100, 0>>, <<100, 500000000>>, <<101, 0>>}

PointRows(frame) ==
    [position_n : {3 * Len(frame.rows)}, position_e : {0}, position_d : {0},
     stamp : IF frame.timestamps THEN Stamps ELSE {<<0, 0>>},
     phi : IF frame.phi THEN {1, TextCell} ELSE {0},
     note : IF frame.note THEN {2, TextCell} ELSE {0}]

\* df['time'] = df['sec'] + df['nanosec'] / 1e9, in milliseconds.
Time1000(row) == row.stamp[1] * 1000 + row.stamp[2] \div 1000000

\* df['normalized_time']: the time less the least time of the table, or the
\* index over 10.
NormalizedTime1000(frame, i) ==
    IF frame.timestamps
    THEN Time1000(frame.rows[i + 1])
            - SetMin({Time1000(frame.rows[r]) : r \in 1..Len(frame.rows)})
    ELSE i * 100

\* float(row[angle]) for the angle of the table: it is outside any try.
OrientationRaises(frame, i) == frame.phi /\ frame.rows[i + 1].phi = TextCell

\* The other columns of point_data: float(row[col]) inside try, the field
\* left out on ValueError.
PointFields(frame, i) ==
    (IF frame.phi THEN {"phi"} ELSE {})
    \cup (IF frame.note /\ frame.rows[i + 1].note # TextCell THEN {"note"} ELSE {})

\* point_data for the row at index i.
PointData(frame, i) ==
    [row |-> i,
     position_n |-> frame.rows[i + 1].position_n,
     position_e |-> frame.rows[i + 1].position_e,
     position_d |-> frame.rows[i + 1].position_d,
     time1000 |-> NormalizedTime1000(frame, i),
     fields |-> PointFields(frame, i)]

\* The loop for i in range(0, len(df), sampling_factor), and the except
\* block of the function around it.
ProcessPoints(frame, rate) ==
    LET f == SamplingFactor(rate, Len(frame.rows))
        n == RangeLen(Len(frame.rows), f)
    IN  IF \E k \in 1..n : OrientationRaises(frame, (k - 1) * f)
        THEN [error |-> "Processing error", data |-> <<>>, sampling_factor |-> f]
        ELSE [error |-> "none",
              data |-> [k \in 1..n |-> PointData(frame, (k - 1) * f)],
              sampling_factor |-> f]

NoPoints == [error |-> "none", data |-> <<>>, sampling_factor |-> 1]

InitPoints ==
    /\ points_df \in [timestamps : BOOLEAN, phi : BOOLEAN, note : BOOLEAN, rows : {<<>>}]
    /\ points_rate \in 1..MaxPointsRate
    /\ processed_data = NoPoints
    /\ points_pc = "input"

RestPoints ==
    /\ points_df = [timestamps |-> FALSE, phi |-> FALSE, note |-> FALSE, rows |-> <<>>]
    /\ points_rate = 1
    /\ processed_data = NoPoints
    /\ points_pc = "rest"

\* The file: one more row.
AddPointRow ==
    /\ points_pc = "input"
    /\ Len(points_df.rows) < MaxPoints
    /\ \E row \in PointRows(points_df) :
          points_df' = [points_df EXCEPT !.rows = Append(@, row)]
    /\ UNCHANGED <<points_rate, processed_data, points_pc, others_points>>

\* process_csv_data on the table.
EmitPoints ==
    /\ points_pc = "input"
    /\ processed_data' = ProcessPoints(points_df, points_rate)
    /\ points_pc' = "done"
    /\ UNCHANGED <<points_df, points_rate, others_points>>

NextPoints == AddPointRow \/ EmitPoints

(***************************************************************************)
(* The points stage: the claims.                                           *)
(***************************************************************************)
\* C22: with sec and nanosec the time of an emitted point is its timestamp
\* less the timestamp of the first row, so the first point has time 0;
\* without them the time of the row at index i is i / 10.
C22_TimeStartsAtFirstRow ==
    points_pc = "done" /\ processed_data.error = "none"
        => \A k \in 1..Len(processed_data.data) :
              LET point == processed_data.data[k]
              IN  IF points_df.timestamps
                  THEN /\ point.time1000 = Time1000(points_df.rows[point.row + 1])
                                               - Time1000(points_df.rows[1])
                       /\ k = 1 => point.time1000 = 0
                  ELSE point.time1000 = point.row * 100

\* C23: text in a column other than the position columns loses no point:
\* the call ends without an error, every sampled row has its point, and the
\* point leaves out the fields that are text and no others.
C23_TextCellLosesOnlyItsField ==
    points_pc = "done"
        => /\ processed_data.error = "none"
           /\ Len(processed_data.data)
                 = RangeLen(Len(points_df.rows), processed_data.sampling_factor)
           /\ \A k \in 1..Len(processed_data.data) :
                 LET point == processed_data.data[k]
                     row == points_df.rows[point.row + 1]
                 IN  /\ ("phi" \in point.fields) = (points_df.phi /\ row.phi # TextCell)
                     /\ ("note" \in point.fields) = (points_df.note /\ row.note # TextCell)

(***************************************************************************)
(* The read stage: process_csv_data reads the content whole, or in chunks  *)
(* when is_large_file is set.                                              *)
(***************************************************************************)
\* chunk_size = 50000
chunk_size == 50000

\* Bounds of the read stage: the file grows by blocks of rows and by single
\* rows.
RowBlock == 25000
MaxBlocks == 3
MaxLooseRows == 2

FirstLines == {"position_n,position_e,position_d", "1,2,3", "1e1,2,3", "x,y"}

\* The rows of the table: the lines after the header, or all lines.
DataRowCount(content, headers) ==
    IF headers THEN content.more_lines ELSE content.more_lines + 1

\* list(df.columns): the fields of the header line, or col0, col1, ...
LoadedColumns(content, headers) ==
    IF headers THEN SplitComma(content.first_line)
    ELSE [c \in 1..Len(SplitComma(content.first_line)) |-> SyntheticName(c - 1)]

\* pd.read_csv(io.StringIO(csv_content)): the whole table.
LoadWhole(content) ==
    LET headers == DetectHeaders(content.first_line)
    IN  [has_headers |-> headers,
         column_names |-> LoadedColumns(content, headers),
         total_points |-> DataRowCount(content, headers)]

\* pd.read_csv(..., chunksize=chunk_size) and df = first_chunk: the table
\* is the first chunk, the iterator is not read further.
LoadFirstChunk(content) ==
    LET headers == DetectHeaders(content.first_line)
    IN  [has_headers |-> headers,
         column_names |-> LoadedColumns(content, headers),
         total_points |-> Min(DataRowCount(content, headers), chunk_size)]

\* The table of process_csv_data, by is_large_file.
LoadTable(content, large) ==
    IF large THEN LoadFirstChunk(content) ELSE LoadWhole(content)

NoTable == [has_headers |-> FALSE, column_names |-> <<>>, total_points |-> 0]

InitRead ==
    /\ csv_content \in [first_line : FirstLines, more_lines : {0}, blocks : {0}]
    /\ is_large_file \in BOOLEAN
    /\ loaded = NoTable
    /\ read_pc = "input"

RestRead ==
    /\ csv_content = [first_line |-> "", more_lines |-> 0, blocks |-> 0]
    /\ is_large_file = FALSE
    /\ loaded = NoTable
    /\ read_pc = "rest"

\* The file: one more line.
AppendLine ==
    /\ read_pc = "input"
    /\ csv_content.more_lines - csv_content.blocks * RowBlock < MaxLooseRows
    /\ csv_content' = [csv_content EXCEPT !.more_lines = @ + 1]
    /\ UNCHANGED <<is_large_file, loaded, read_pc, others_read>>

\* The file: one more block of lines.
AppendBlock ==
    /\ read_pc = "input"
    /\ csv_content.blocks < MaxBlocks
    /\ csv_content' = [csv_content EXCEPT !.more_lines = @ + RowBlock, !.blocks = @ + 1]
    /\ UNCHANGED <<is_large_file, loaded, read_pc, others_read>>

\* process_csv_data, up to the table it works on.
LoadCsv ==
    /\ read_pc = "input"
    /\ loaded' = LoadTable(csv_content, is_large_file)
    /\ read_pc' = "done"
    /\ UNCHANGED <<csv_content, is_large_file, others_read>>

NextRead == AppendLine \/ AppendBlock \/ LoadCsv

(***************************************************************************)
(* The read stage: the claims.                                             *)
(***************************************************************************)
\* C26: in chunked mode process_csv_data makes the header decision and sees
\* the column names of whole-file mode, and original_count is the number of
\* data rows of the file.
C26_ChunkedAgreesWithWhole ==
    read_pc = "done"
        => /\ loaded.has_headers = LoadWhole(csv_content).has_headers
           /\ loaded.column_names = LoadWhole(csv_content).column_names
           /\ loaded.total_points
                 = DataRowCount(csv_content, DetectHeaders(csv_content.first_line))

(***************************************************************************)
(* The metrics stage: the trajectory metrics of analyze_csv_file.          *)
(* Distances are in tenths.  The tables have no missing position, so       *)
(* df_clean is df.                                                         *)
(***************************************************************************)
\* sample_rate = max(1, len(df_clean) // 500)
AnalysisTarget == 500

\* Bounds of the metrics stage.
MaxStride == 2
MaxOddRows == 2

\* Row counts at both sides of every multiple of the analysis target.
MetricRowCounts ==
    {r \in 0..(MaxStride * AnalysisTarget + MaxOddRows) :
        \/ r % AnalysisTarget <= MaxOddRows
        \/ r % AnalysisTarget >= AnalysisTarget - 1}

MetricColumns ==
    {<<"position_n", "position_e", "position_d">>, <<"north", "east", "down">>}

MetricTables ==
    [rows : MetricRowCounts, start : Starts, step : Steps, kind : Kinds,
     columns : MetricColumns]

\* math.sqrt((p2[0]-p1[0])**2 + (p2[1]-p1[1])**2 + (p2[2]-p1[2])**2)
Distance10(p1, p2) ==
    LET dn == p2.position_n - p1.position_n
        de == p2.position_e - p1.position_e
        dd == p2.position_d - p1.position_d
    IN  ISqrt(100 * (dn * dn + de * de + dd * dd))

\* The indices of range(1, len(df_clean), sample_rate): 1 + k * sample_rate.
SampleCount(len, rate) == Cardinality({k \in 0..(len - 1) : 1 + k * rate < len})

\* The distance appended for the k-th index of the loop, k = 0, 1, ...
SampledDistance10(table, rate, k) ==
    LET i == 1 + k * rate
        prev_i == Max(0, i - rate)
    IN  Distance10(RowAt(table, prev_i), RowAt(table, i))

\* sum(distances), over the indices lo..hi of the list.
RECURSIVE SumDistances(_, _, _, _)
SumDistances(table, rate, lo, hi) ==
    IF lo > hi THEN 0
    ELSE IF lo = hi THEN SampledDistance10(table, rate, lo)
         ELSE LET mid == (lo + hi) \div 2
              IN  SumDistances(table, rate, lo, mid)
                    + SumDistances(table, rate, mid + 1, hi)

NoMetrics == [error |-> "", total_distance |-> 0, sample_rate |-> 0]

\* trajectory_metrics of analyze_csv_file: its error and its total_distance.
TrajectoryMetrics(table) ==
    IF \E c \in PositionColumns : \A k \in 1..Len(table.columns) : table.columns[k] # c
    THEN [NoMetrics EXCEPT !.error = "Position data columns not found in file"]
    ELSE IF table.rows <= 1
    THEN [NoMetrics EXCEPT
            !.error = "Not enough position data points to calculate trajectory metrics"]
    \* stride is sample_rate
    ELSE LET stride == Max(1, table.rows \div AnalysisTarget)
             count == SampleCount(table.rows, stride)
             total == SumDistances(table, stride, 0, count - 1)
         IN  [error |-> "",
              total_distance |-> IF count > 0
                                 THEN total * (IF stride > 1 THEN stride ELSE 1)
                                 ELSE 0,
              sample_rate |-> stride]

InitMetrics ==
    /\ df_clean \in MetricTables
    /\ trajectory_metrics = NoMetrics
    /\ metrics_pc = "input"

RestMetrics ==
    /\ df_clean = [rows |-> 0, start |-> <<0, 0, 0>>, step |-> <<0, 0, 0>>,
                   kind |-> "line", columns |-> <<>>]
    /\ trajectory_metrics = NoMetrics
    /\ metrics_pc = "rest"

\* analyze_csv_file, the trajectory metrics.
AnalyzeTrajectory ==
    /\ metrics_pc = "input"
    /\ trajectory_metrics' = TrajectoryMetrics(df_clean)
    /\ metrics_pc' = "done"
    /\ UNCHANGED <<df_clean, others_metrics>>

NextMetrics == AnalyzeTrajectory

(***************************************************************************)
(* The metrics stage: the claims.                                          *)
(***************************************************************************)
\* The sum of the distances between consecutive rows.
PathLength10(table) == SumDistances(table, 1, 0, table.rows - 2)

\* C21: total_distance is the sum of the distances between consecutive rows
\* when the stride is 1, and equals that sum on a trajectory of constant
\* step along a straight line when the stride is above 1.
C21_TotalDistanceIsPathLength ==
    (/\ metrics_pc = "done"
     /\ trajectory_metrics.error = ""
     /\ (trajectory_metrics.sample_rate = 1 \/ df_clean.kind = "line"))
        => trajectory_metrics.total_distance = PathLength10(df_clean)

vars ==
    <<vars_header, vars_sample, vars_detect, vars_encoding, vars_clean, vars_session,
      vars_trim, vars_points, vars_read, vars_metrics>>

\* One specification for each stage: the stage runs, the others rest.
InitHeaderStage ==
    /\ InitHeader /\ RestSample /\ RestDetect /\ RestEncoding /\ RestClean
    /\ RestSession /\ RestTrim /\ RestPoints /\ RestRead /\ RestMetrics
SpecHeader == InitHeaderStage /\ [][NextHeader]_vars

InitSampleStage ==
    /\ InitSample /\ RestHeader /\ RestDetect /\ RestEncoding /\ RestClean
    /\ RestSession /\ RestTrim /\ RestPoints /\ RestRead /\ RestMetrics
SpecSample == InitSampleStage /\ [][NextSample]_vars

InitDetectStage ==
    /\ InitDetect /\ RestHeader /\ RestSample /\ RestEncoding /\ RestClean
    /\ RestSession /\ RestTrim /\ RestPoints /\ RestRead /\ RestMetrics
SpecDetect == InitDetectStage /\ [][NextDetect]_vars

InitEncodingStage ==
    /\ InitEncoding /\ RestHeader /\ RestSample /\ RestDetect /\ RestClean
    /\ RestSession /\ RestTrim /\ RestPoints /\ RestRead /\ RestMetrics
SpecEncoding == InitEncodingStage /\ [][NextEncoding]_vars

InitCleanStage ==
    /\ InitClean /\ RestHeader /\ RestSample /\ RestDetect /\ RestEncoding
    /\ RestSession /\ RestTrim /\ RestPoints /\ RestRead /\ RestMetrics
SpecClean == InitCleanStage /\ [][NextClean]_vars

InitSessionStage ==
    /\ InitSession /\ RestHeader /\ RestSample /\ RestDetect /\ RestEncoding
    /\ RestClean /\ RestTrim /\ RestPoints /\ RestRead /\ RestMetrics
SpecSession == InitSessionStage /\ [][NextSession]_vars

InitTrimStage ==
    /\ InitTrim /\ RestHeader /\ RestSample /\ RestDetect /\ RestEncoding
    /\ RestClean /\ RestSession /\ RestPoints /\ RestRead /\ RestMetrics
SpecTrim == InitTrimStage /\ [][NextTrim]_vars

InitPointsStage ==
    /\ InitPoints /\ RestHeader /\ RestSample /\ RestDetect /\ RestEncoding
    /\ RestClean /\ RestSession /\ RestTrim /\ RestRead /\ RestMetrics
SpecPoints == InitPointsStage /\ [][NextPoints]_vars

InitReadStage ==
    /\ InitRead /\ RestHeader /\ RestSample /\ RestDetect /\ RestEncoding
    /\ RestClean /\ RestSession /\ RestTrim /\ RestPoints /\ RestMetrics
SpecRead == InitReadStage /\ [][NextRead]_vars

InitMetricsStage ==
    /\ InitMetrics /\ RestHeader /\ RestSample /\ RestDetect /\ RestEncoding
    /\ RestClean /\ RestSession /\ RestTrim /\ RestPoints /\ RestRead
SpecMetrics == InitMetricsStage /\ [][NextMetrics]_vars

====
